---- MODULE Spec2Model ----
(***************************************************************************)
(* State-machine model of the TM_Screening_Pipeline scripts: the batching   *)
(* helpers, the retry wrappers and their callers (mp.py, nemad.py,          *)
(* icsd_from_mpids.py, fetch_band_dos.py), the element filter of            *)
(* COD_downloader.py, the step sequence of run_all.py, the functions        *)
(* canonical_formula (nemad.py) and the row columns of mp.py applied to     *)
(* one input, the rows and files query_and_save_metadata (mp.py) writes,    *)
(* the loop of ICSD_get_cifs_by_ids.py over the id file, and downloader     *)
(* (Awflow_downloader.py).  One script runs per behaviour; `script` says    *)
(* which.  Times are in milliseconds.                                       *)
(***************************************************************************)
EXTENDS Integers, Sequences, FiniteSets, TLC

VARIABLES
    script,         \* which script of the pipeline this behaviour runs
    \* ---- a call of chunk_list (mp.py) ----
    ch_lst,         \* argument lst
    ch_max,         \* argument max_chars
    ch_out,         \* returned chunks
    ch_pc,          \* "call" | "done"
    \* ---- the frame of the retry wrapper that is currently active ----
    w_name,         \* "safe_api_call" | "request_json" | "fetch_from_summary" | "fetch_from_provenance" | "none"
    w_state,        \* "idle" | "running" | "returned" | "raised"
    w_args,         \* arguments of the wrapped remote call
    w_retries,      \* the wrapper's retries parameter
    w_attempt,      \* the loop variable `attempt`
    w_calls,        \* remote calls issued by this invocation of the wrapper
    w_sleeps,       \* durations of the time.sleep calls of this invocation, in order
    w_fails,        \* the failed requests of this invocation (exception or error status), in order
    w_val,          \* value handed to the caller
    w_err,          \* exception handed to the caller ("none" when no exception)
    w_log,          \* messages written by this invocation (log.txt / stderr)
    \* ---- mp.py, query_and_save_metadata ----
    mp_db,          \* what the Materials Project holds (environment)
    mp_pc,          \* "start" | "search" | "searched"
    mp_ei,          \* index into allowed_elements
    mp_ci,          \* index into banned_chunks
    all_results,    \* the list all_results
    material_ids,   \* the collection material_ids
    \* ---- nemad.py ----
    nm_comp,        \* TRUE iff pymatgen's Composition could be imported
    nm_by_formula,  \* --by-formula
    nm_exact,       \* --exact-match
    nm_named,       \* TRUE iff the provider's records carry Material_Name
    nm_mp,          \* rows of the MP csv (ID, _mp_formula, spacegroup)
    nm_pc,          \* "start" | "fetch" | "fetched" | "done"
    nm_formulas,    \* the list formulas
    nm_fi,          \* index into formulas
    nm_out,         \* the list out / all_records
    nm_merge_out,   \* TRUE iff --merge-out names a file
    nm_merged,      \* rows of the merged csv
    \* ---- the slice-batching loop of icsd_from_mpids.py / fetch_band_dos.py ----
    bt_ids,         \* mpids
    bt_batch,       \* --batch
    bt_k,           \* position in range(0, len(mpids), batch), from 1
    bt_batches,     \* the chunks sliced so far, in order
    \* ---- icsd_from_mpids.py ----
    ic_retries,     \* --retries
    ic_use_prov,    \* --use-provenance
    ic_schema,      \* the field casing the provider speaks (environment)
    ic_field,       \* dbids_field
    ic_pc,          \* "start" | "summary" | "provenance" | "write" | "done"
    ic_icsd,        \* the set icsd
    ic_idx,         \* position of fetch_from_provenance in mpids, from 1
    ic_addl,        \* the set fetch_from_provenance collects
    ic_file,        \* the text of ids_to_download.txt
    ic_probes,      \* the calls of detect_dbids_field made so far
    \* ---- fetch_band_dos.py ----
    bd_pc,          \* "start" | "loop" | "done"
    bd_done,        \* material ids fetched so far, in order
    \* ---- COD_downloader.py, first_scan ----
    cod_paths,      \* the CIF contents behind the lines of pathlist
    cod_k,          \* number of paths read
    cod_rows,       \* rows appended to datalist_COD.csv (index of the path, species)
    cod_pc,         \* "scan" | "done"
    \* ---- the pause between two wrapped remote calls ----
    last_call,      \* how the latest wrapped call ended: "none" | "ok" | "failed"
    pause,          \* the time.sleep calls of the caller after that call came back
    \* ---- run_all.py ----
    ra_args,        \* the flags given on the command line
    ra_files,       \* the paths that exist in the working directory
    ra_pc,          \* the step main is at
    ra_ran,         \* the commands run() has launched, in order
    ra_failed,      \* the launched commands that exited with a failure
    ra_warned,      \* the steps warn() was called for
    \* ---- nemad.py, canonical_formula applied to a string ----
    cf_s,           \* a formula string
    cf_t,           \* the same element tokens in another order
    cf_comp,        \* TRUE iff pymatgen's Composition could be imported
    cf_out,         \* the results of the calls made so far
    cf_pc,          \* "call" | "again" | "done"
    \* ---- mp.py, the row built from one summary document ----
    doc,            \* the document
    doc_row,        \* the columns spacegroup, icsd_ids, doi of its row
    doc_pc,         \* "build" | "done"
    \* ---- mp.py, query_and_save_metadata from the csv header on ----
    all_rows,       \* the module-level list all_rows
    csv_file,       \* the rows of datalist.csv under its header
    excel_file,     \* the rows of datalist.xlsx
    ids_to_download, \* the text of ids_to_download.txt as mp.py writes it
    basic_data,     \* the summary documents of the batch
    qs_k,           \* position of `for doc in basic_data`, from 1
    qs_pc,          \* "idle" | "rows" | "crashed"
    qs_calls,       \* the calls of query_and_save_metadata that have returned
    qs_log,         \* the messages of log_message, latest call
    \* ---- ICSD_get_cifs_by_ids.py ----
    gc_py3,         \* TRUE iff the interpreter is Python 3 (environment)
    gc_file,        \* the text of ids_to_download.txt
    gc_lines,       \* Lines
    gc_k,           \* position of `for line in Lines`, from 1
    gc_done,        \* what became of each line handled so far
    gc_pc,          \* "read" | "loop" | "done" | "crashed"
    \* ---- Awflow_downloader.py, downloader ----
    totalN,         \* len(result)
    counter,        \* the parameter and loop variable counter
    default_decounter, \* the parameter default_decounter
    decounter,      \* the loop variable decounter
    dl_pc,          \* "loop" | "done" | "crashed"
    dl_accessed,    \* the indices result[...] was asked for, in order
    dl_batch,       \* entries downloaded since the start or the latest pause
    dl_pauses,      \* dl_batch at each time.sleep(300), in order
    \* ---- nemad.py, the command line ----
    nm_retries,     \* args.retries (--retries)
    \* ---- how the script ended ----
    exit            \* "running" | "done" | an uncaught exception

chunkVars == <<ch_lst, ch_max, ch_out, ch_pc>>
frameVars == <<w_name, w_state, w_args, w_retries, w_attempt, w_calls, w_sleeps,
               w_fails, w_val, w_err, w_log>>
mpVars    == <<mp_db, mp_pc, mp_ei, mp_ci, all_results, material_ids>>
nmVars    == <<nm_comp, nm_by_formula, nm_exact, nm_named, nm_mp, nm_pc, nm_formulas,
               nm_fi, nm_out, nm_merge_out, nm_merged>>
btVars    == <<bt_ids, bt_batch, bt_k, bt_batches>>
icVars    == <<ic_retries, ic_use_prov, ic_schema, ic_field, ic_pc, ic_icsd, ic_idx,
               ic_addl, ic_file, ic_probes>>
bdVars    == <<bd_pc, bd_done>>
codVars   == <<cod_paths, cod_k, cod_rows, cod_pc>>
gapVars   == <<last_call, pause>>
raVars    == <<ra_args, ra_files, ra_pc, ra_ran, ra_failed, ra_warned>>
cfVars    == <<cf_s, cf_t, cf_comp, cf_out, cf_pc>>
docVars   == <<doc, doc_row, doc_pc>>
\* the state of the scripts that make no remote call through a wrapper
qsVars    == <<all_rows, csv_file, excel_file, ids_to_download, basic_data, qs_k, qs_pc,
               qs_calls, qs_log>>
gcVars    == <<gc_py3, gc_file, gc_lines, gc_k, gc_done, gc_pc>>
dlVars    == <<totalN, counter, default_decounter, decounter, dl_pc, dl_accessed,
               dl_batch, dl_pauses>>
\* the state of the scripts that work on files and on one search result
fileVars  == <<qsVars, gcVars, dlVars>>
argVars   == <<nm_retries>>
auxVars   == <<raVars, cfVars, docVars, fileVars, argVars>>
vars      == <<script, chunkVars, frameVars, mpVars, nmVars, btVars, icVars, bdVars,
               codVars, gapVars, auxVars, exit>>

-----------------------------------------------------------------------------
(* Python helpers *)

Min(a, b) == IF a < b THEN a ELSE b

\* range(0, n, step) for step # 0, as the sequence of its values
RangeStep(n, step) ==
    IF step > 0 /\ n > 0
    THEN [k \in 1..((n + step - 1) \div step) |-> (k - 1) * step]
    ELSE <<>>

\* lst[i:j] for 0 <= i <= j
Slice(lst, i, j) == SubSeq(lst, i + 1, Min(j, Len(lst)))

RECURSIVE Concat(_)
Concat(ss) == IF ss = <<>> THEN <<>> ELSE Head(ss) \o Concat(Tail(ss))

SeqSet(s) == {s[k] : k \in DOMAIN s}

\* the values the wrappers hand back
NoneVal == [kind |-> "None", items |-> <<>>]
ListVal(items) == [kind |-> "list", items |-> items]

\* Python truthiness of such a value: None and the empty list are falsy
Truthy(v) == v.kind # "None" /\ v.items # <<>>

(* The identifier file ids_to_download.txt.  A text is a sequence of pieces:
   identifiers and the line terminator. *)

NL == "\n"

\* sep.join(items)
RECURSIVE join_by(_, _)
join_by(sep, items) ==
    IF items = <<>> THEN <<>>
    ELSE IF Len(items) = 1 THEN <<Head(items)>>
    ELSE <<Head(items), sep>> \o join_by(sep, Tail(items))

\* the identifiers joined, nothing after the last one
ids_text_unterminated(ids) == join_by(NL, ids)

\* `"\n".join(ids) + ("\n" if ids else "")`
ids_text(ids) == join_by(NL, ids) \o (IF ids # <<>> THEN <<NL>> ELSE <<>>)

-----------------------------------------------------------------------------
(* mp.py: chunk_list *)

DefaultMaxChars == 55

\* every item in a batch of its own
chunk_list_singly(lst, max_chars) == [k \in DOMAIN lst |-> <<lst[k]>>]

RECURSIVE chunk_loop(_, _, _, _, _, _)
chunk_loop(lst, k, max_chars, chunks, current_chunk, current_length) ==
    IF k > Len(lst)
    THEN IF current_chunk # <<>> THEN Append(chunks, current_chunk) ELSE chunks
    ELSE LET item    == lst[k]
             add_len == Len(item) + (IF current_chunk # <<>> THEN 1 ELSE 0)
         IN  IF current_length + add_len > max_chars
             THEN chunk_loop(lst, k + 1, max_chars, Append(chunks, current_chunk),
                             <<item>>, Len(item))
             ELSE chunk_loop(lst, k + 1, max_chars, chunks,
                             Append(current_chunk, item), current_length + add_len)

chunk_list(lst, max_chars) == chunk_loop(lst, 1, max_chars, <<>>, <<>>, 0)

\* bounds of the inputs tried for chunk_list
MaxItems == 3
MaxChars == 5
ItemPool == {"U", "Fe", "Uue"}

SeqsUpTo(S, n) == UNION {[1..k -> S] : k \in 0..n}

ChunkInit ==
    /\ ch_lst \in SeqsUpTo(ItemPool, MaxItems)
    /\ ch_max \in 0..MaxChars
    /\ ch_out = <<>>
    /\ ch_pc = "call"

ChunkIdle ==
    /\ ch_lst = <<>> /\ ch_max = 0 /\ ch_out = <<>> /\ ch_pc = "off"

ChunkListCall ==
    /\ script = "chunk_list"
    /\ ch_pc = "call"
    /\ ch_out' = chunk_list(ch_lst, ch_max)
    /\ ch_pc' = "done"
    /\ exit' = "done"
    /\ UNCHANGED <<script, gapVars, auxVars,
                   ch_lst, ch_max, frameVars, mpVars, nmVars, btVars, icVars,
                   bdVars, codVars>>

-----------------------------------------------------------------------------
(* The frame of a retry wrapper *)

FrameIdle ==
    /\ w_name = "none" /\ w_state = "idle" /\ w_args = <<>> /\ w_retries = 0
    /\ w_attempt = 0 /\ w_calls = 0 /\ w_sleeps = <<>> /\ w_fails = <<>>
    /\ w_val = NoneVal /\ w_err = "none" /\ w_log = <<>>

\* the caller enters the wrapper `name`; `first` is the first value of `attempt`
EnterFrame(name, args, retries, first) ==
    /\ w_name' = name /\ w_state' = "running" /\ w_args' = args /\ w_retries' = retries
    /\ w_attempt' = first /\ w_calls' = 0 /\ w_sleeps' = <<>> /\ w_fails' = <<>>
    /\ w_val' = NoneVal /\ w_err' = "none" /\ w_log' = <<>>

\* the request that ended this invocation was answered without an error
CallSucceeded == w_calls > Len(w_fails)

\* the caller takes the result and sleeps `slept` before it goes on
NotePause(slept) ==
    /\ last_call' = IF CallSucceeded THEN "ok" ELSE "failed"
    /\ pause' = slept

GapInit == last_call = "none" /\ pause = <<>>

\* the caller has taken the result
LeaveFrame ==
    /\ w_state' = "idle"
    /\ UNCHANGED <<w_name, w_args, w_retries, w_attempt, w_calls, w_sleeps, w_fails,
                   w_val, w_err, w_log>>

-----------------------------------------------------------------------------
(* mp.py: the Materials Project as the element search sees it *)

allowed_elements == <<"Mn", "Fe", "Co", "Ni", "Cr">>
banned_elements ==
    <<"Re", "Os", "Ir", "Pt", "Au", "In", "Tc", "Be", "As", "Cd", "Ba", "Hg", "Tl", "Pb",
      "Ac", "Cs", "Po", "Np", "U", "Pu", "Th", "He", "Ne", "Ar", "Kr", "Xe">>

banned_chunks == chunk_list(banned_elements, DefaultMaxChars)

\* Materials that pass the numeric filters of the search (stable, magnetic, ...).
MpCatalog ==
    << [material_id |-> "mp-1", elements |-> {"Fe", "O"}],
       [material_id |-> "mp-2", elements |-> {"Fe", "Pb"}],
       [material_id |-> "mp-3", elements |-> {"Ni", "Th"}],
       [material_id |-> "mp-4", elements |-> {"Co", "Re", "Xe"}] >>

RECURSIVE Pick(_, _, _)
Pick(s, keep, k) ==
    IF k > Len(s) THEN <<>>
    ELSE (IF k \in keep THEN <<s[k]>> ELSE <<>>) \o Pick(s, keep, k + 1)

SubCatalogs == {Pick(MpCatalog, keep, 1) : keep \in SUBSET DOMAIN MpCatalog}

\* mpr.materials.summary.search(elements=[elem], exclude_elements=chunk, ...)
summary_search(db, elem, chunk) ==
    LET hit(d) == elem \in d.elements /\ d.elements \cap SeqSet(chunk) = {}
        docs   == SelectSeq(db, hit)
    IN  [k \in DOMAIN docs |-> docs[k].material_id]

\* the exceptions the client raises
MpErrors == {"MPRestError"}

-----------------------------------------------------------------------------
(* mp.py: safe_api_call *)

SafeApiRetries == 3
SafeApiDelay == 5000

\* time.sleep(delay) in the except branch of attempt number `attempt` (from 0)
safe_api_sleep(attempt, retries) == <<SafeApiDelay>>

\* what safe_api_call hands back after the loop
safe_api_final == NoneVal

SafeApiCallAttempt ==
    /\ w_name = "safe_api_call" /\ w_state = "running"
    /\ w_attempt < w_retries
    /\ w_calls' = w_calls + 1
    /\ \/ /\ w_val' = ListVal(summary_search(mp_db, w_args.elem, w_args.chunk))
          /\ w_state' = "returned"
          /\ UNCHANGED <<w_attempt, w_sleeps, w_fails, w_log>>
       \/ \E e \in MpErrors :
          /\ w_fails' = Append(w_fails, e)
          /\ w_log' = Append(w_log, "Attempt failed")
          /\ w_sleeps' = w_sleeps \o safe_api_sleep(w_attempt, w_retries)
          /\ w_attempt' = w_attempt + 1
          /\ UNCHANGED <<w_state, w_val>>
    /\ UNCHANGED <<script, gapVars, auxVars,
                   w_name, w_args, w_retries, w_err, chunkVars, mpVars, nmVars,
                   btVars, icVars, bdVars, codVars, exit>>

SafeApiCallExhausted ==
    /\ w_name = "safe_api_call" /\ w_state = "running"
    /\ w_attempt >= w_retries
    /\ w_log' = Append(w_log, "All attempts failed")
    /\ w_val' = safe_api_final
    /\ w_state' = "returned"
    /\ UNCHANGED <<script, gapVars, auxVars,
                   w_name, w_args, w_retries, w_attempt, w_calls, w_sleeps,
                   w_fails, w_err, chunkVars, mpVars, nmVars, btVars, icVars, bdVars,
                   codVars, exit>>

-----------------------------------------------------------------------------
(* mp.py: query_and_save_metadata, the element search *)

MpInit ==
    /\ mp_db \in SubCatalogs
    /\ mp_pc = "start" /\ mp_ei = 1 /\ mp_ci = 1
    /\ all_results = <<>> /\ material_ids = {}

MpIdle ==
    /\ mp_db = <<>> /\ mp_pc = "off" /\ mp_ei = 1 /\ mp_ci = 1
    /\ all_results = <<>> /\ material_ids = {}

QueryStart ==
    /\ script = "mp" /\ mp_pc = "start"
    /\ mp_pc' = "search"
    /\ all_results' = <<>>
    /\ mp_ei' = 1 /\ mp_ci' = 1
    /\ UNCHANGED <<script, gapVars, auxVars,
                   mp_db, material_ids, chunkVars, frameVars, nmVars,
                   btVars, icVars, bdVars, codVars, exit>>

SearchCall ==
    /\ script = "mp" /\ mp_pc = "search" /\ w_state = "idle"
    /\ EnterFrame("safe_api_call",
                  [elem |-> allowed_elements[mp_ei], chunk |-> banned_chunks[mp_ci]],
                  SafeApiRetries, 0)
    /\ UNCHANGED <<script, gapVars, auxVars,
                   chunkVars, mpVars, nmVars, btVars, icVars, bdVars, codVars, exit>>

\* `if results: all_results.extend(results)`
search_extend(results_so_far, results) ==
    IF Truthy(results) THEN results_so_far \o results.items ELSE results_so_far

\* the sleeps of the loop body between two calls of safe_api_call: there are none
search_pause == <<>>

SearchHandle ==
    /\ script = "mp" /\ mp_pc = "search" /\ w_state = "returned"
    /\ all_results' = search_extend(all_results, w_val)
    /\ IF mp_ci < Len(banned_chunks)
       THEN /\ mp_ci' = mp_ci + 1
            /\ UNCHANGED <<mp_ei, mp_pc, material_ids>>
       ELSE IF mp_ei < Len(allowed_elements)
            THEN /\ mp_ei' = mp_ei + 1 /\ mp_ci' = 1
                 /\ UNCHANGED <<mp_pc, material_ids>>
            ELSE /\ material_ids' = SeqSet(all_results')
                 /\ mp_pc' = "searched"
                 /\ UNCHANGED <<mp_ei, mp_ci>>
    /\ NotePause(search_pause)
    /\ LeaveFrame
    /\ UNCHANGED <<script, auxVars, mp_db, chunkVars, nmVars, btVars, icVars, bdVars,
                   codVars, exit>>

-----------------------------------------------------------------------------
(* nemad.py: formula strings *)

(* A formula string is a sequence of tokens: an element symbol with the count
   written after it (n = 0: no count written), a blank, or text that is no
   formula ("nan", the text pandas gives a missing cell). *)
Tok(el, n) == [el |-> el, n |-> n]
SP   == Tok(" ", 0)
JUNK == Tok("nan", 0)

Elements == {"Fe", "O"}

\* s.strip()
RECURSIVE lstrip(_)
lstrip(s) == IF s # <<>> /\ Head(s) = SP THEN lstrip(Tail(s)) ELSE s
RECURSIVE rstrip(_)
rstrip(s) == IF s # <<>> /\ s[Len(s)] = SP THEN rstrip(SubSeq(s, 1, Len(s) - 1)) ELSE s
\* a strip that takes at most one blank off each end
strip_once(s) ==
    LET a == IF s # <<>> /\ Head(s) = SP THEN Tail(s) ELSE s
    IN  IF a # <<>> /\ a[Len(a)] = SP THEN SubSeq(a, 1, Len(a) - 1) ELSE a

strip(s) == rstrip(lstrip(s))

\* the characters of a string, as code points, for the order sorted() uses
SymbolCodes(el) ==
    CASE el = "Fe"  -> <<70, 101>>
      [] el = "O"   -> <<79>>
      [] el = " "   -> <<32>>
      [] el = "nan" -> <<110, 97, 110>>
RECURSIVE Codes(_)
Codes(s) ==
    IF s = <<>> THEN <<>>
    ELSE SymbolCodes(Head(s).el)
         \o (IF Head(s).n > 0 THEN <<48 + Head(s).n>> ELSE <<>>)
         \o Codes(Tail(s))

RECURSIVE LexLess(_, _)
LexLess(a, b) ==
    IF b = <<>> THEN FALSE
    ELSE IF a = <<>> THEN TRUE
    ELSE IF Head(a) # Head(b) THEN Head(a) < Head(b)
    ELSE LexLess(Tail(a), Tail(b))

\* sorted(S) for a set S of formula strings
RECURSIVE sorted(_)
sorted(S) ==
    IF S = {} THEN <<>>
    ELSE LET m == CHOOSE x \in S : \A y \in S \ {x} : LexLess(Codes(x), Codes(y))
         IN  <<m>> \o sorted(S \ {m})

\* Composition(s): the amount of each element, or failure on text that is no formula
Parseable(s) == \A k \in DOMAIN s : s[k] # JUNK
RECURSIVE Amount(_, _)
Amount(s, el) ==
    IF s = <<>> THEN 0
    ELSE (IF Head(s).el = el THEN (IF Head(s).n = 0 THEN 1 ELSE Head(s).n) ELSE 0)
         + Amount(Tail(s), el)

RECURSIVE Gcd(_, _)
Gcd(a, b) == IF b = 0 THEN a ELSE Gcd(b, a % b)

\* Composition(s).reduced_formula: amounts divided by their gcd, elements in order
\* of electronegativity, a count of 1 not written; a lone O is written O2.
reduced_formula(s) ==
    LET fe == Amount(s, "Fe")
        o  == Amount(s, "O")
        g  == Gcd(fe, o)
        cnt(a) == IF a \div g = 1 THEN 0 ELSE a \div g
    IN  IF fe = 0 /\ o = 0 THEN <<>>
        ELSE IF fe = 0 THEN <<Tok("O", 2)>>
        ELSE (<<Tok("Fe", cnt(fe))>>) \o (IF o > 0 THEN <<Tok("O", cnt(o))>> ELSE <<>>)

IsBlank(s) == strip(s) = <<>>

canonical_formula(s, have_composition) ==
    IF IsBlank(s) THEN <<>>
    ELSE IF ~have_composition THEN strip(s)
    ELSE IF Parseable(s) THEN reduced_formula(s)
    ELSE strip(s)

\* elements_from_formula, as the set behind the sorted list it returns
elements_from_formula(s, have_composition) ==
    IF ~have_composition THEN {s[k].el : k \in DOMAIN s} \cap Elements
    ELSE IF Parseable(s) THEN {el \in Elements : Amount(s, el) > 0}
    ELSE {}

-----------------------------------------------------------------------------
(* nemad.py: the rows of the MP csv, and the NEMAD service *)

MpRowPool ==
    { [ID |-> "mp-1", formula |-> <<Tok("Fe", 2), SP, Tok("O", 3)>>, spacegroup |-> "R-3c"],
      [ID |-> "mp-2", formula |-> <<Tok("O", 3), SP, Tok("Fe", 2)>>, spacegroup |-> "Fm-3m"],
      [ID |-> "mp-3", formula |-> <<Tok("Fe", 1), SP, Tok("O", 1)>>, spacegroup |-> "Fm-3m"],
      [ID |-> "mp-4", formula |-> <<JUNK>>,                          spacegroup |-> "P1"] }

MaxMpRows == 2

NemadCatalog ==
    << [rid |-> "n1", Material_Name |-> <<Tok("Fe", 2), Tok("O", 3)>>,
        Crystal_Structure |-> "r - 3 c"],
       [rid |-> "n2", Material_Name |-> <<Tok("Fe", 2), Tok("O", 3)>>,
        Crystal_Structure |-> "Fm-3m"],
       [rid |-> "n3", Material_Name |-> <<Tok("Fe", 0), Tok("O", 0)>>,
        Crystal_Structure |-> "Fm-3m"] >>

\* the records the service holds for a query (the service matches by composition)
nemad_results(args) ==
    LET same(r) ==
            IF args.endpoint = "formula"
            THEN /\ Parseable(args.formula)
                 /\ \A el \in Elements :
                        Amount(reduced_formula(r.Material_Name), el)
                          = Amount(reduced_formula(args.formula), el)
            ELSE LET els == elements_from_formula(r.Material_Name, TRUE)
                 IN  IF args.exact_match THEN els = args.elements
                     ELSE args.elements \subseteq els
    IN  SelectSeq(NemadCatalog, same)

\* values request_json hands back
DictVal(results) == [kind |-> "dict", items |-> results]
NoResultsVal == [kind |-> "dict_without_results", items |-> <<>>]

\* what requests.get can come back with
HttpErrors == {"http500", "http429"}
ClientErrors == {"Timeout", "ConnectionError"}

-----------------------------------------------------------------------------
(* nemad.py: request_json *)

RequestJsonRetries == 3
RequestJsonBackoff == 800

\* `if attempt < retries: time.sleep(backoff * attempt)`
request_json_sleep(attempt, retries) ==
    IF attempt < retries THEN <<RequestJsonBackoff * attempt>> ELSE <<>>

\* requests.get(...) raised: nothing in request_json catches it
request_json_on_client_error(e) == [state |-> "raised", err |-> e, attempt |-> w_attempt]

RequestJsonAttempt ==
    /\ w_name = "request_json" /\ w_state = "running"
    /\ w_attempt <= w_retries
    /\ w_calls' = w_calls + 1
    /\ \/ \E e \in ClientErrors :
          LET r == request_json_on_client_error(e)
          IN  /\ w_fails' = Append(w_fails, e)
              /\ w_state' = r.state /\ w_err' = r.err /\ w_attempt' = r.attempt
              /\ UNCHANGED <<w_val, w_sleeps>>
       \/ \E data \in {DictVal(nemad_results(w_args)), NoResultsVal} :
          /\ w_val' = data
          /\ w_state' = "returned"
          /\ UNCHANGED <<w_attempt, w_sleeps, w_fails, w_err>>
       \/ /\ w_val' = NoneVal             \* status 200, the body is no JSON
          /\ w_state' = "returned"
          /\ UNCHANGED <<w_attempt, w_sleeps, w_fails, w_err>>
       \/ \E st \in HttpErrors :
          /\ w_fails' = Append(w_fails, st)
          /\ w_sleeps' = w_sleeps \o request_json_sleep(w_attempt, w_retries)
          /\ w_attempt' = w_attempt + 1
          /\ UNCHANGED <<w_state, w_val, w_err>>
    /\ UNCHANGED <<script, gapVars, auxVars,
                   w_name, w_args, w_retries, w_log, chunkVars, mpVars, nmVars,
                   btVars, icVars, bdVars, codVars, exit>>

\* after the loop: the warning on stderr reads resp, which is unbound if no request was made
RequestJsonExhausted ==
    /\ w_name = "request_json" /\ w_state = "running"
    /\ w_attempt > w_retries
    /\ IF w_calls = 0
       THEN /\ w_state' = "raised" /\ w_err' = "UnboundLocalError"
            /\ UNCHANGED <<w_val, w_log>>
       ELSE /\ w_log' = Append(w_log, "[WARN] failed")
            /\ w_val' = NoneVal
            /\ w_state' = "returned"
            /\ UNCHANGED w_err
    /\ UNCHANGED <<script, gapVars, auxVars,
                   w_name, w_args, w_retries, w_attempt, w_calls, w_sleeps,
                   w_fails, chunkVars, mpVars, nmVars, btVars, icVars, bdVars, codVars,
                   exit>>

-----------------------------------------------------------------------------
(* nemad.py: fetch_by_formula, fetch_by_elements, main *)

NmInit ==
    /\ nm_comp \in BOOLEAN
    /\ nm_by_formula \in BOOLEAN
    /\ nm_exact \in (IF nm_by_formula THEN {TRUE} ELSE BOOLEAN)
    /\ nm_named \in BOOLEAN
    /\ nm_merge_out \in BOOLEAN
    /\ nm_mp \in SeqsUpTo(MpRowPool, MaxMpRows)
    /\ nm_pc = "start" /\ nm_formulas = <<>> /\ nm_fi = 1
    /\ nm_out = <<>> /\ nm_merged = <<>>

NmIdle ==
    /\ nm_comp = FALSE /\ nm_by_formula = FALSE /\ nm_exact = FALSE /\ nm_named = FALSE
    /\ nm_merge_out = FALSE /\ nm_mp = <<>>
    /\ nm_pc = "off" /\ nm_formulas = <<>> /\ nm_fi = 1
    /\ nm_out = <<>> /\ nm_merged = <<>>

\* main, step 1: the canonical formulas of the MP rows
NemadLoad ==
    /\ script = "nemad" /\ nm_pc = "start"
    /\ nm_formulas' = sorted({canonical_formula(nm_mp[k].formula, nm_comp) : k \in DOMAIN nm_mp})
    /\ nm_fi' = 1
    /\ nm_pc' = "fetch"
    /\ UNCHANGED <<script, gapVars, auxVars,
                   nm_comp, nm_by_formula, nm_exact, nm_named, nm_mp, nm_out,
                   nm_merge_out, nm_merged, chunkVars, frameVars, mpVars, btVars, icVars,
                   bdVars, codVars, exit>>

\* a record of the result list, with the columns the fetchers add
Annotated(rec, f) ==
    [rid |-> rec.rid, named |-> nm_named, Material_Name |-> rec.Material_Name,
     Crystal_Structure |-> rec.Crystal_Structure, query |-> f]

\* `if not data or "results" not in data: continue`, else the records are appended
fetch_append(out, data, f) ==
    IF data.kind # "dict"
    THEN out
    ELSE out \o [k \in DOMAIN data.items |-> Annotated(data.items[k], f)]

FetchByFormulaNext ==
    /\ script = "nemad" /\ nm_pc = "fetch" /\ nm_by_formula
    /\ w_state = "idle" /\ nm_fi <= Len(nm_formulas)
    /\ IF nm_formulas[nm_fi] = <<>>
       THEN /\ nm_fi' = nm_fi + 1
            /\ UNCHANGED frameVars
       ELSE /\ EnterFrame("request_json",
                          [endpoint |-> "formula", formula |-> nm_formulas[nm_fi]],
                          RequestJsonRetries, 1)
            /\ UNCHANGED nm_fi
    /\ UNCHANGED <<script, gapVars, auxVars,
                   nm_comp, nm_by_formula, nm_exact, nm_named, nm_mp, nm_pc,
                   nm_formulas, nm_out, nm_merge_out, nm_merged, chunkVars, mpVars,
                   btVars, icVars, bdVars, codVars, exit>>

FetchByElementsNext ==
    /\ script = "nemad" /\ nm_pc = "fetch" /\ ~nm_by_formula
    /\ w_state = "idle" /\ nm_fi <= Len(nm_formulas)
    /\ LET els == elements_from_formula(nm_formulas[nm_fi], nm_comp)
       IN  IF els = {}
           THEN /\ nm_fi' = nm_fi + 1
                /\ UNCHANGED frameVars
           ELSE /\ EnterFrame("request_json",
                              [endpoint |-> "search", elements |-> els,
                               exact_match |-> nm_exact],
                              RequestJsonRetries, 1)
                /\ UNCHANGED nm_fi
    /\ UNCHANGED <<script, gapVars, auxVars,
                   nm_comp, nm_by_formula, nm_exact, nm_named, nm_mp, nm_pc,
                   nm_formulas, nm_out, nm_merge_out, nm_merged, chunkVars, mpVars,
                   btVars, icVars, bdVars, codVars, exit>>

\* --sleep-ms
DefaultSleepMs == 250

\* `time.sleep(max(0, sleep_ms) / 1000.0)` after request_json came back
fetch_pause(sleep_ms) == <<IF sleep_ms > 0 THEN sleep_ms ELSE 0>>

\* request_json came back: the records, if any, join `out`
FetchHandle ==
    /\ script = "nemad" /\ nm_pc = "fetch" /\ w_state = "returned"
    /\ nm_out' = fetch_append(nm_out, w_val, nm_formulas[nm_fi])
    /\ nm_fi' = nm_fi + 1
    /\ NotePause(fetch_pause(DefaultSleepMs))
    /\ LeaveFrame
    /\ UNCHANGED <<script, auxVars, nm_comp, nm_by_formula, nm_exact, nm_named, nm_mp, nm_pc,
                   nm_formulas, nm_merge_out, nm_merged, chunkVars, mpVars, btVars,
                   icVars, bdVars, codVars, exit>>

\* request_json raised: nothing between it and the interpreter catches
FetchRaise ==
    /\ script = "nemad" /\ nm_pc = "fetch" /\ w_state = "raised"
    /\ nm_pc' = "crashed"
    /\ exit' = w_err
    /\ NotePause(<<>>)
    /\ LeaveFrame
    /\ UNCHANGED <<script, auxVars, nm_comp, nm_by_formula, nm_exact, nm_named, nm_mp,
                   nm_formulas, nm_fi, nm_out, nm_merge_out, nm_merged, chunkVars, mpVars,
                   btVars, icVars, bdVars, codVars>>

FetchReturn ==
    /\ script = "nemad" /\ nm_pc = "fetch" /\ w_state = "idle"
    /\ nm_fi > Len(nm_formulas)
    /\ nm_pc' = "fetched"
    /\ UNCHANGED <<script, gapVars, auxVars,
                   nm_comp, nm_by_formula, nm_exact, nm_named, nm_mp,
                   nm_formulas, nm_fi, nm_out, nm_merge_out, nm_merged, chunkVars,
                   frameVars, mpVars, btVars, icVars, bdVars, codVars, exit>>

\* the column of the NEMAD rows that main canonicalises for the join
nemad_formula_col(rec) == IF rec.named THEN rec.Material_Name ELSE rec.query

NoRecord == [rid |-> "NaN", Crystal_Structure |-> "NaN"]

\* mp.merge(df_nemad, on="_formula_canon", how="left")
RECURSIVE merge(_, _, _)
merge(left, right, have_composition) ==
    IF left = <<>> THEN <<>>
    ELSE LET row  == Head(left)
             key  == canonical_formula(row.formula, have_composition)
             same(rec) == canonical_formula(nemad_formula_col(rec), have_composition) = key
             hits == SelectSeq(right, same)
             out(rec) == [ID |-> row.ID, formula |-> key, spacegroup |-> row.spacegroup,
                          rid |-> rec.rid, Crystal_Structure |-> rec.Crystal_Structure]
         IN  (IF hits = <<>> THEN <<out(NoRecord)>>
              ELSE [k \in DOMAIN hits |-> out(hits[k])])
             \o merge(Tail(left), right, have_composition)

\* main, steps 3 and 4: write the results, merge them onto the MP rows
NemadWrite ==
    /\ script = "nemad" /\ nm_pc = "fetched"
    /\ nm_merged' = IF nm_merge_out /\ nm_out # <<>>
                    THEN merge(nm_mp, nm_out, nm_comp)
                    ELSE <<>>
    /\ nm_pc' = "done"
    /\ exit' = "done"
    /\ UNCHANGED <<script, gapVars, auxVars,
                   nm_comp, nm_by_formula, nm_exact, nm_named, nm_mp,
                   nm_formulas, nm_fi, nm_out, nm_merge_out, chunkVars, frameVars, mpVars,
                   btVars, icVars, bdVars, codVars>>

-----------------------------------------------------------------------------
(* icsd_from_mpids.py and fetch_band_dos.py: the id list and its slices *)

\* the ids of the csv, in the order sorted(set(ids)) gives them
IdOrder == <<"mp-1", "mp-2", "mp-3">>

\* read_mpids: a sorted list of distinct ids, never empty
MpidLists == {Pick(IdOrder, keep, 1) : keep \in (SUBSET DOMAIN IdOrder) \ {{}}}

MaxBatch == 3
MaxRetries == 3

BtInit ==
    /\ bt_ids \in MpidLists
    /\ bt_batch \in (-1)..MaxBatch
    /\ bt_k = 1
    /\ bt_batches = <<>>

BtIdle ==
    /\ bt_ids = <<>> /\ bt_batch = 1 /\ bt_k = 1 /\ bt_batches = <<>>

\* the k-th value of `for i in range(0, len(mpids), batch)` and its slice mpids[i:i+batch]
batch_starts(ids, batch) == RangeStep(Len(ids), batch)
batch_chunk(ids, batch, k) ==
    LET i == batch_starts(ids, batch)[k] IN Slice(ids, i, i + batch)

-----------------------------------------------------------------------------
(* icsd_from_mpids.py *)

\* what the Materials Project holds for an id: the icsd list of its database ids
SummaryIcsd(mid) ==
    CASE mid = "mp-1" -> <<"101", "102">>
      [] mid = "mp-2" -> <<"102">>
      [] mid = "mp-3" -> <<>>
ProvenanceIcsd(mid) ==
    CASE mid = "mp-1" -> <<"101">>
      [] mid = "mp-2" -> <<>>
      [] mid = "mp-3" -> <<"103", "icsd-9">>

\* every id the provider can name, in the order sorted() gives them
IcsdIdOrder == <<"101", "102", "103", "icsd-9">>
\* s.replace(".", "").isdigit()
looks_like_icsd(s) == s \in {"101", "102", "103"}

\* the ids of the first document only
extract_icsd_of_first(docs) == IF docs = <<>> THEN {} ELSE SeqSet(docs[1])

\* the orders in which the provider can return the documents of a request
Orderings(ids) ==
    {[k \in DOMAIN ids |-> ids[p[k]]] :
        p \in {q \in [DOMAIN ids -> DOMAIN ids] : \A i, j \in DOMAIN ids : q[i] = q[j] => i = j}}

\* extract_icsd_from_dbids over the documents of a request
extract_icsd(docs) == UNION {SeqSet(docs[k]) : k \in DOMAIN docs}

FieldVariants == {"database_IDs", "database_Ids"}
\* an exception of the client that is no MPRestError
OtherErrors == {"OtherException"}

SummaryBackoff == 1500

IcInit ==
    /\ ic_retries \in 0..MaxRetries
    /\ ic_use_prov \in BOOLEAN
    /\ ic_schema \in FieldVariants
    /\ ic_field = "none" /\ ic_pc = "start" /\ ic_icsd = {} /\ ic_idx = 1
    /\ ic_addl = {} /\ ic_file = <<>> /\ ic_probes = 0

IcIdle ==
    /\ ic_retries = 0 /\ ic_use_prov = FALSE /\ ic_schema = "none"
    /\ ic_field = "none" /\ ic_pc = "off" /\ ic_icsd = {} /\ ic_idx = 1
    /\ ic_addl = {} /\ ic_file = <<>> /\ ic_probes = 0

\* detect_dbids_field: one request with database_IDs; on MPRestError one with database_Ids
DetectDbidsField ==
    /\ script = "icsd" /\ ic_pc = "start"
    /\ \/ /\ ic_schema = "database_IDs"
          /\ ic_field' = "database_IDs" /\ ic_pc' = "summary" /\ UNCHANGED exit
       \/ /\ ic_schema = "database_Ids"
          /\ ic_field' = "database_Ids" /\ ic_pc' = "summary" /\ UNCHANGED exit
       \/ /\ exit' = "MPRestError"       \* the second request fails too: nothing catches it
          /\ ic_pc' = "crashed" /\ UNCHANGED ic_field
       \/ \E e \in OtherErrors :
          /\ exit' = e /\ ic_pc' = "crashed" /\ UNCHANGED ic_field
    /\ ic_probes' = ic_probes + 1
    /\ UNCHANGED <<script, gapVars, auxVars,
                   ic_retries, ic_use_prov, ic_schema, ic_icsd, ic_idx, ic_addl,
                   ic_file, chunkVars, frameVars, mpVars, nmVars, btVars, bdVars, codVars>>

\* a request that names the new casing whatever the probe found
summary_request_field_fixed(dbids_field) == "database_IDs"

\* the database-ids field named in `fields=["material_id", dbids_field]`
summary_request_field(dbids_field) == dbids_field

\* fetch_from_summary: the next slice, or the return after the last one
SummaryNext ==
    /\ script = "icsd" /\ ic_pc = "summary" /\ w_state = "idle"
    /\ IF bt_batch = 0
       THEN /\ exit' = "ValueError" /\ ic_pc' = "crashed"
            /\ UNCHANGED <<btVars, frameVars>>
       ELSE IF bt_k <= Len(batch_starts(bt_ids, bt_batch))
       THEN /\ bt_batches' = Append(bt_batches, batch_chunk(bt_ids, bt_batch, bt_k))
            /\ EnterFrame("fetch_from_summary",
                          [ids |-> batch_chunk(bt_ids, bt_batch, bt_k),
                           field |-> summary_request_field(ic_field)], ic_retries, 1)
            /\ UNCHANGED <<bt_ids, bt_batch, bt_k, ic_pc, exit>>
       ELSE /\ ic_pc' = IF ic_use_prov THEN "provenance" ELSE "write"
            /\ UNCHANGED <<btVars, frameVars, exit>>
    /\ UNCHANGED <<script, gapVars, auxVars,
                   ic_retries, ic_probes, ic_use_prov, ic_schema, ic_field, ic_icsd, ic_idx,
                   ic_addl, ic_file, chunkVars, mpVars, nmVars, bdVars, codVars>>

\* `time.sleep(1.5 * attempt)` of fetch_from_summary and fetch_from_provenance
summary_sleep(attempt) == <<SummaryBackoff * attempt>>

FetchFromSummaryAttempt ==
    /\ w_name = "fetch_from_summary" /\ w_state = "running"
    /\ w_attempt <= w_retries
    /\ w_calls' = w_calls + 1
    /\ \/ /\ \E docs \in Orderings(w_args.ids) : w_val' = ListVal(docs)
          /\ w_state' = "returned"
          /\ UNCHANGED <<w_attempt, w_sleeps, w_fails, w_err>>
       \/ /\ w_fails' = Append(w_fails, "MPRestError")
          /\ IF w_attempt >= w_retries
             THEN /\ w_state' = "raised" /\ w_err' = "MPRestError"
                  /\ UNCHANGED <<w_attempt, w_sleeps>>
             ELSE /\ w_sleeps' = w_sleeps \o summary_sleep(w_attempt)
                  /\ w_attempt' = w_attempt + 1
                  /\ UNCHANGED <<w_state, w_err>>
          /\ UNCHANGED w_val
       \/ \E e \in OtherErrors :
          /\ w_fails' = Append(w_fails, e)
          /\ w_state' = "raised" /\ w_err' = e
          /\ UNCHANGED <<w_attempt, w_sleeps, w_val>>
    /\ UNCHANGED <<script, gapVars, auxVars,
                   w_name, w_args, w_retries, w_log, chunkVars, mpVars, nmVars,
                   btVars, icVars, bdVars, codVars, exit>>

\* retries < 1: the loop body never ran and `docs` is unbound
FetchFromSummaryExhausted ==
    /\ w_name = "fetch_from_summary" /\ w_state = "running"
    /\ w_attempt > w_retries
    /\ w_state' = "raised" /\ w_err' = "UnboundLocalError"
    /\ UNCHANGED <<script, gapVars, auxVars,
                   w_name, w_args, w_retries, w_attempt, w_calls, w_sleeps,
                   w_fails, w_val, w_log, chunkVars, mpVars, nmVars, btVars, icVars,
                   bdVars, codVars, exit>>

SummaryHandle ==
    /\ script = "icsd" /\ ic_pc = "summary" /\ w_state = "returned"
    /\ ic_icsd' = ic_icsd \cup extract_icsd([k \in DOMAIN w_val.items |-> SummaryIcsd(w_val.items[k])])
    /\ bt_k' = bt_k + 1
    /\ NotePause(<<>>)
    /\ LeaveFrame
    /\ UNCHANGED <<script, auxVars, bt_ids, bt_batch, bt_batches, ic_retries, ic_probes, ic_use_prov, ic_schema,
                   ic_field, ic_pc, ic_idx, ic_addl, ic_file, chunkVars, mpVars, nmVars,
                   bdVars, codVars, exit>>

\* fetch_from_summary re-raised: main does not catch
SummaryRaise ==
    /\ script = "icsd" /\ ic_pc = "summary" /\ w_state = "raised"
    /\ ic_pc' = "crashed"
    /\ exit' = w_err
    /\ NotePause(<<>>)
    /\ LeaveFrame
    /\ UNCHANGED <<script, auxVars, btVars, ic_retries, ic_probes, ic_use_prov, ic_schema, ic_field, ic_icsd,
                   ic_idx, ic_addl, ic_file, chunkVars, mpVars, nmVars, bdVars, codVars>>

\* fetch_from_provenance: the next id, or the return after the last one
ProvenanceNext ==
    /\ script = "icsd" /\ ic_pc = "provenance" /\ w_state = "idle"
    /\ IF ic_idx <= Len(bt_ids)
       THEN /\ EnterFrame("fetch_from_provenance", [mid |-> bt_ids[ic_idx]], ic_retries, 1)
            /\ UNCHANGED <<ic_pc, ic_icsd>>
       ELSE /\ ic_icsd' = ic_icsd \cup ic_addl
            /\ ic_pc' = "write"
            /\ UNCHANGED frameVars
    /\ UNCHANGED <<script, gapVars, auxVars,
                   btVars, ic_retries, ic_probes, ic_use_prov, ic_schema, ic_field, ic_idx,
                   ic_addl, ic_file, chunkVars, mpVars, nmVars, bdVars, codVars, exit>>

FetchFromProvenanceAttempt ==
    /\ w_name = "fetch_from_provenance" /\ w_state = "running"
    /\ w_attempt <= w_retries
    /\ w_calls' = w_calls + 1
    /\ \/ /\ w_val' = ListVal(<<w_args.mid>>)
          /\ w_state' = "returned"
          /\ UNCHANGED <<w_attempt, w_sleeps, w_fails>>
       \/ \E e \in {"MPRestError"} \cup OtherErrors :
          /\ w_fails' = Append(w_fails, e)
          /\ IF w_attempt >= w_retries
             THEN /\ w_state' = "returned" /\ w_val' = NoneVal
                  /\ UNCHANGED <<w_attempt, w_sleeps>>
             ELSE /\ w_sleeps' = w_sleeps \o summary_sleep(w_attempt)
                  /\ w_attempt' = w_attempt + 1
                  /\ UNCHANGED <<w_state, w_val>>
    /\ UNCHANGED <<script, gapVars, auxVars,
                   w_name, w_args, w_retries, w_err, w_log, chunkVars, mpVars,
                   nmVars, btVars, icVars, bdVars, codVars, exit>>

\* retries < 1: no request is made for this id
FetchFromProvenanceExhausted ==
    /\ w_name = "fetch_from_provenance" /\ w_state = "running"
    /\ w_attempt > w_retries
    /\ w_state' = "returned" /\ w_val' = NoneVal
    /\ UNCHANGED <<script, gapVars, auxVars,
                   w_name, w_args, w_retries, w_attempt, w_calls, w_sleeps,
                   w_fails, w_err, w_log, chunkVars, mpVars, nmVars, btVars, icVars,
                   bdVars, codVars, exit>>

ProvenanceHandle ==
    /\ script = "icsd" /\ ic_pc = "provenance" /\ w_state = "returned"
    /\ ic_addl' = ic_addl \cup extract_icsd([k \in DOMAIN w_val.items |-> ProvenanceIcsd(w_val.items[k])])
    /\ ic_idx' = ic_idx + 1
    /\ NotePause(<<>>)
    /\ LeaveFrame
    /\ UNCHANGED <<script, auxVars, btVars, ic_retries, ic_probes, ic_use_prov, ic_schema, ic_field, ic_pc,
                   ic_icsd, ic_file, chunkVars, mpVars, nmVars, bdVars, codVars, exit>>

\* main: keep the numeric-like ids, sorted, one per line
IcsdWrite ==
    /\ script = "icsd" /\ ic_pc = "write"
    /\ ic_file' = ids_text(Pick(IcsdIdOrder,
                       {k \in DOMAIN IcsdIdOrder :
                            IcsdIdOrder[k] \in ic_icsd /\ looks_like_icsd(IcsdIdOrder[k])}, 1))
    /\ ic_pc' = "done"
    /\ exit' = "done"
    /\ UNCHANGED <<script, gapVars, auxVars,
                   btVars, ic_retries, ic_probes, ic_use_prov, ic_schema, ic_field, ic_icsd,
                   ic_idx, ic_addl, chunkVars, frameVars, mpVars, nmVars, bdVars, codVars>>

-----------------------------------------------------------------------------
(* fetch_band_dos.py: main *)

BdInit == bd_pc = "loop" /\ bd_done = <<>>
BdIdle == bd_pc = "off" /\ bd_done = <<>>

\* one pass of `for i in range(0, len(mpids), args.batch)`: every id of the slice is
\* fetched (the fetchers catch their own errors), or the loop ends
BandDosBatch ==
    /\ script = "band_dos" /\ bd_pc = "loop"
    /\ IF bt_batch = 0
       THEN /\ exit' = "ValueError" /\ bd_pc' = "crashed"
            /\ UNCHANGED <<btVars, bd_done>>
       ELSE IF bt_k <= Len(batch_starts(bt_ids, bt_batch))
       THEN /\ bt_batches' = Append(bt_batches, batch_chunk(bt_ids, bt_batch, bt_k))
            /\ bd_done' = bd_done \o batch_chunk(bt_ids, bt_batch, bt_k)
            /\ bt_k' = bt_k + 1
            /\ UNCHANGED <<bt_ids, bt_batch, bd_pc, exit>>
       ELSE /\ bd_pc' = "done" /\ exit' = "done"
            /\ UNCHANGED <<btVars, bd_done>>
    /\ UNCHANGED <<script, gapVars, auxVars,
                   chunkVars, frameVars, mpVars, nmVars, icVars, codVars>>

-----------------------------------------------------------------------------
(* COD_downloader.py: first_scan *)

(* The _chemical_formula_sum of a CIF is a sequence of pieces of text: element
   symbols, digits and blanks; has_formula is FALSE when the CIF has no such tag. *)
Cif(has, formula) == [has_formula |-> has, formula |-> formula]
CifPool ==
    { Cif(TRUE,  <<"Fe", "2", " ", "O", "3">>),
      Cif(TRUE,  <<"Fe", "2", "O", "3">>),
      Cif(TRUE,  <<"Fe", " ", "Si">>),
      Cif(TRUE,  <<"Y", " ", "Co", "5">>),
      Cif(TRUE,  <<"Mn", " ", "Pt">>),
      Cif(TRUE,  <<"Co", "2", " ", "Pt">>),
      Cif(TRUE,  <<"Cu">>),
      Cif(FALSE, <<>>) }

MaxCifs == 2

Digits == {"0", "1", "2", "3", "4", "5", "6", "7", "8", "9"}

\* pretty_formula.translate({ord(i): None for i in '1234567890'})
drop_digits(s) == SelectSeq(s, LAMBDA p : p \notin Digits)

\* str.split(): the maximal runs of text between blanks
RECURSIVE split(_, _)
split(s, word) ==
    IF s = <<>> THEN (IF word = "" THEN <<>> ELSE <<word>>)
    ELSE IF Head(s) = " "
         THEN (IF word = "" THEN <<>> ELSE <<word>>) \o split(Tail(s), "")
         ELSE split(Tail(s), word \o Head(s))

\* the list elemets of a CIF
elemets(cif) ==
    LET pretty_formula == IF cif.has_formula THEN cif.formula ELSE <<"na">>
    IN  split(drop_digits(pretty_formula), "")

necessary == <<"Mn", "Fe", "Si", "Ni", " Y", "Zr", "Al", "Cu">>
banlist ==
    <<"Re", "Os", "Ir", "Pt", "Au", "In", "Tc", "Be", "As", "Cd", "Ba", "Hg", "Tl", "Pb",
      "Ac", "Cs", "Po", "Np", "U", "Pu", "Th", "He", "Ne", "Ar", "O", "Kr", "Xe">>

necessary_match(els) == SelectSeq(necessary, LAMBDA i : i \in SeqSet(els))
banlist_match(els) == SelectSeq(banlist, LAMBDA i : i \in SeqSet(els))

\* the write guarded by the allow-list alone
row_written_without_ban(els) == necessary_match(els) # <<>>

\* the nested ifs that guard the write of a row
row_written(els) ==
    IF necessary_match(els) # <<>>
    THEN (IF banlist_match(els) = <<>> THEN TRUE ELSE FALSE)
    ELSE FALSE

CodInit ==
    /\ cod_paths \in SeqsUpTo(CifPool, MaxCifs)
    /\ cod_k = 0 /\ cod_rows = <<>> /\ cod_pc = "scan"

CodIdle ==
    /\ cod_paths = <<>> /\ cod_k = 0 /\ cod_rows = <<>> /\ cod_pc = "off"

\* one pass of `for path in f`
FirstScanEntry ==
    /\ script = "cod" /\ cod_pc = "scan"
    /\ cod_k < Len(cod_paths)
    /\ cod_k' = cod_k + 1
    /\ LET els == elemets(cod_paths[cod_k + 1])
       IN  cod_rows' = IF row_written(els)
                       THEN Append(cod_rows, [path |-> cod_k + 1, species |-> els])
                       ELSE cod_rows
    /\ UNCHANGED <<script, gapVars, auxVars,
                   cod_paths, cod_pc, chunkVars, frameVars, mpVars, nmVars,
                   btVars, icVars, bdVars, exit>>

FirstScanEnd ==
    /\ script = "cod" /\ cod_pc = "scan"
    /\ cod_k >= Len(cod_paths)
    /\ cod_pc' = "done"
    /\ exit' = "done"
    /\ UNCHANGED <<script, gapVars, auxVars,
                   cod_paths, cod_k, cod_rows, chunkVars, frameVars, mpVars,
                   nmVars, btVars, icVars, bdVars>>

-----------------------------------------------------------------------------
(* run_all.py: main.  The flags that only add words to a command line
   (--icsd-with-provenance, --nemad-by-formula, --es-uniform, ...) are left out. *)

Flags == {"skip_mp", "skip_icsd", "skip_elastic", "skip_es", "skip_nemad", "plot_dos"}
RequiredScripts ==
    <<"mp.py", "icsd_from_mpids.py", "fetch_elasticity.py", "fetch_band_dos.py",
      "nemad_fetch.py">>
CifScript == "ICSD_get_cifs_by_ids.py"
Plotter == "-c plotter"

\* how many helper scripts may be missing from the folder
MaxMissing == 1

RaInit ==
    /\ ra_args \in SUBSET Flags
    /\ \E missing \in SUBSET (SeqSet(RequiredScripts) \cup {CifScript}),
          old \in SUBSET {"datalist.csv", "ids_to_download.txt", "es_data"} :
          /\ Cardinality(missing) <= MaxMissing
          /\ ra_files = ((SeqSet(RequiredScripts) \cup {CifScript}) \ missing) \cup old
    /\ ra_pc = "check" /\ ra_ran = <<>> /\ ra_failed = {} /\ ra_warned = {}

RaIdle ==
    /\ ra_args = {} /\ ra_files = {} /\ ra_pc = "off" /\ ra_ran = <<>>
    /\ ra_failed = {} /\ ra_warned = {}

\* the files a helper script may leave behind when it exits with success
products(cmd) ==
    CASE cmd = "mp.py" -> {{"datalist.csv", "ids_to_download.txt"}}
      [] cmd = "icsd_from_mpids.py" -> {{"ids_to_download.txt"}}
      [] cmd = "fetch_elasticity.py" -> {{}, {"elasticity_summary.csv"}}
      [] cmd = "fetch_band_dos.py" -> {{}, {"es_data"}}
      [] OTHER -> {{}}

\* run(cmd): subprocess.run(cmd, check=True): the command is launched; a non-zero
\* exit raises CalledProcessError
run(cmd, ok) ==
    /\ ra_ran' = Append(ra_ran, cmd)
    /\ ra_failed' = IF ok THEN ra_failed ELSE ra_failed \cup {cmd}

\* an exception that nothing in main catches
RaAbort(e) == ra_pc' = "aborted" /\ exit' = e

RaRest == <<script, gapVars, argVars, cfVars, docVars, fileVars, chunkVars, frameVars,
            mpVars, nmVars, btVars, icVars, bdVars, codVars>>

\* lines 59-67: the helper scripts must be there
RaCheck ==
    /\ script = "run_all" /\ ra_pc = "check"
    /\ IF \E k \in DOMAIN RequiredScripts : RequiredScripts[k] \notin ra_files
       THEN /\ RaAbort("SystemExit")
            /\ UNCHANGED <<ra_args, ra_warned>>
       ELSE /\ IF CifScript \notin ra_files /\ "skip_icsd" \notin ra_args
               THEN /\ ra_warned' = ra_warned \cup {CifScript}
                    /\ ra_args' = ra_args \cup {"skip_icsd"}
               ELSE UNCHANGED <<ra_args, ra_warned>>
            /\ ra_pc' = "mp"
            /\ UNCHANGED exit
    /\ UNCHANGED <<ra_files, ra_ran, ra_failed, RaRest>>

\* step 1, lines 69-77
RaStepMp ==
    /\ script = "run_all" /\ ra_pc = "mp"
    /\ IF "skip_mp" \notin ra_args
       THEN \E ok \in BOOLEAN, made \in products("mp.py") :
            /\ run("mp.py", ok)
            /\ IF ~ok
               THEN RaAbort("CalledProcessError") /\ UNCHANGED ra_files
               ELSE /\ ra_files' = ra_files \cup made
                    /\ IF "datalist.csv" \notin ra_files'
                       THEN RaAbort("SystemExit")
                       ELSE ra_pc' = "icsd" /\ UNCHANGED exit
       ELSE /\ IF "datalist.csv" \notin ra_files
               THEN RaAbort("SystemExit")
               ELSE ra_pc' = "icsd" /\ UNCHANGED exit
            /\ UNCHANGED <<ra_files, ra_ran, ra_failed>>
    /\ UNCHANGED <<ra_args, ra_warned, RaRest>>

\* step 2, lines 79-83
RaStepIcsd ==
    /\ script = "run_all" /\ ra_pc = "icsd"
    /\ \E ok \in BOOLEAN, made \in products("icsd_from_mpids.py") :
       /\ run("icsd_from_mpids.py", ok)
       /\ IF ~ok
          THEN RaAbort("CalledProcessError") /\ UNCHANGED ra_files
          ELSE ra_files' = ra_files \cup made /\ ra_pc' = "cifs" /\ UNCHANGED exit
    /\ UNCHANGED <<ra_args, ra_warned, RaRest>>

\* lines 84-89: the only run() inside a try
RaStepCifs ==
    /\ script = "run_all" /\ ra_pc = "cifs"
    /\ IF "ids_to_download.txt" \in ra_files /\ "skip_icsd" \notin ra_args
          /\ CifScript \in ra_files
       THEN \E ok \in BOOLEAN :
            /\ run(CifScript, ok)
            /\ ra_warned' = IF ok THEN ra_warned ELSE ra_warned \cup {CifScript}
       ELSE UNCHANGED <<ra_ran, ra_failed, ra_warned>>
    /\ ra_pc' = "elastic"
    /\ UNCHANGED <<ra_args, ra_files, exit, RaRest>>

\* step 3, lines 91-98
RaStepElastic ==
    /\ script = "run_all" /\ ra_pc = "elastic"
    /\ IF "skip_elastic" \notin ra_args
       THEN \E ok \in BOOLEAN, made \in products("fetch_elasticity.py") :
            /\ run("fetch_elasticity.py", ok)
            /\ IF ~ok
               THEN RaAbort("CalledProcessError") /\ UNCHANGED <<ra_files, ra_warned>>
               ELSE /\ ra_files' = ra_files \cup made
                    /\ ra_warned' = IF "elasticity_summary.csv" \notin ra_files'
                                    THEN ra_warned \cup {"elasticity_summary.csv"}
                                    ELSE ra_warned
                    /\ ra_pc' = "es" /\ UNCHANGED exit
       ELSE /\ ra_pc' = "es"
            /\ UNCHANGED <<ra_files, ra_ran, ra_failed, ra_warned, exit>>
    /\ UNCHANGED <<ra_args, RaRest>>

\* step 4, lines 100-112
RaStepEs ==
    /\ script = "run_all" /\ ra_pc = "es"
    /\ IF "skip_es" \notin ra_args
       THEN \E ok \in BOOLEAN, made \in products("fetch_band_dos.py") :
            /\ run("fetch_band_dos.py", ok)
            /\ IF ~ok
               THEN /\ RaAbort("CalledProcessError")
                    /\ UNCHANGED <<ra_files, ra_warned, ra_args>>
               ELSE /\ ra_files' = ra_files \cup made
                    /\ IF "es_data" \notin ra_files'
                       THEN /\ ra_warned' = ra_warned \cup {"es_data"}
                            /\ ra_args' = ra_args \ {"plot_dos"}
                       ELSE UNCHANGED <<ra_warned, ra_args>>
                    /\ ra_pc' = "nemad" /\ UNCHANGED exit
       ELSE /\ ra_pc' = "nemad"
            /\ UNCHANGED <<ra_files, ra_ran, ra_failed, ra_warned, ra_args, exit>>
    /\ UNCHANGED RaRest

\* step 5, lines 114-121
RaStepNemad ==
    /\ script = "run_all" /\ ra_pc = "nemad"
    /\ IF "skip_nemad" \notin ra_args
       THEN \E ok \in BOOLEAN :
            /\ run("nemad_fetch.py", ok)
            /\ IF ~ok THEN RaAbort("CalledProcessError")
                      ELSE ra_pc' = "plot" /\ UNCHANGED exit
       ELSE /\ ra_pc' = "plot"
            /\ UNCHANGED <<ra_ran, ra_failed, exit>>
    /\ UNCHANGED <<ra_args, ra_files, ra_warned, RaRest>>

\* step 6 and the last line of main, lines 123-159
RaStepPlot ==
    /\ script = "run_all" /\ ra_pc = "plot"
    /\ IF "plot_dos" \in ra_args /\ "es_data" \in ra_files
       THEN \E ok \in BOOLEAN :
            /\ run(Plotter, ok)
            /\ IF ~ok THEN RaAbort("CalledProcessError")
                      ELSE ra_pc' = "done" /\ exit' = "done"
       ELSE /\ ra_pc' = "done" /\ exit' = "done"
            /\ UNCHANGED <<ra_ran, ra_failed>>
    /\ UNCHANGED <<ra_args, ra_files, ra_warned, RaRest>>

-----------------------------------------------------------------------------
(* nemad.py: canonical_formula applied to a string, to its own result, and to
   the same tokens in another order *)

\* bounds of the formula strings tried
MaxToks == 4
MaxCount == 2

FormulaTokens == {Tok(el, n) : el \in Elements, n \in 0..MaxCount} \cup {SP, JUNK}

Reverse(s) == [k \in DOMAIN s |-> s[Len(s) + 1 - k]]

CfInit ==
    /\ cf_s \in SeqsUpTo(FormulaTokens, MaxToks)
    /\ cf_comp \in BOOLEAN
    /\ cf_t = <<>> /\ cf_out = <<>> /\ cf_pc = "call"

CfIdle ==
    /\ cf_s = <<>> /\ cf_comp = FALSE /\ cf_t = <<>> /\ cf_out = <<>> /\ cf_pc = "off"

CfRest == <<script, gapVars, argVars, raVars, docVars, fileVars, chunkVars, frameVars,
            mpVars, nmVars, btVars, icVars, bdVars, codVars>>

\* canonical_formula(s)
CanonicalFormulaCall ==
    /\ script = "canonical_formula" /\ cf_pc = "call"
    /\ cf_out' = <<canonical_formula(cf_s, cf_comp)>>
    /\ cf_pc' = "again"
    /\ UNCHANGED <<cf_s, cf_t, cf_comp, exit, CfRest>>

\* canonical_formula(canonical_formula(s))
CanonicalFormulaAgain ==
    /\ script = "canonical_formula" /\ cf_pc = "again"
    /\ cf_out' = Append(cf_out, canonical_formula(cf_out[1], cf_comp))
    /\ cf_pc' = "other"
    /\ UNCHANGED <<cf_s, cf_t, cf_comp, exit, CfRest>>

\* canonical_formula(t) for the tokens of s in the opposite order
CanonicalFormulaOther ==
    /\ script = "canonical_formula" /\ cf_pc = "other"
    /\ cf_t' = Reverse(cf_s)
    /\ cf_out' = Append(cf_out, canonical_formula(cf_t', cf_comp))
    /\ cf_pc' = "done"
    /\ exit' = "done"
    /\ UNCHANGED <<cf_s, cf_comp, CfRest>>

-----------------------------------------------------------------------------
(* mp.py: the columns spacegroup, icsd_ids and doi of the row built from one
   summary document, and the field lookup of fetch_from_provenance *)

\* a database-ids field of a document: None, or a dict with its keys and its icsd list
NoneDb == [kind |-> "None", keys |-> {}, icsd |-> <<>>]
DictDb(keys, icsd) == [kind |-> "dict", keys |-> keys, icsd |-> icsd]
EmptyDict == DictDb({}, <<>>)
DbPool ==
    {NoneDb, EmptyDict, DictDb({"icsd"}, <<"101">>), DictDb({"icsd", "cod"}, <<"102", "103">>),
     DictDb({"cod"}, <<>>)}

\* doc.symmetry.symbol; "none" when doc.symmetry is None
SymbolPool == {"none", "R-3c", "r - 3 c", "Fm-3m", "FM-3M (225)"}

(* The doi of a reference is a sequence of pieces of text, blanks and the doi
   proper; <<>> is the empty string. *)
DoiPool == {<<>>, <<" ">>, <<"10.1/a">>, <<" ", "10.1/a", " ">>, <<"10.1/b">>}
\* the stripped dois in the order sorted() gives them
DoiOrder == <<"", "10.1/a", "10.1/b">>

\* bounds of the origins tried
MaxOrigins == 2
MaxRefs == 1

Doc(symbol, ids_new, ids_old, origins) ==
    [symbol |-> symbol, database_IDs |-> ids_new, database_Ids |-> ids_old,
     origins |-> origins]

DocInit ==
    /\ doc \in {Doc(s, a, b, <<>>) : s \in SymbolPool, a \in DbPool, b \in DbPool}
              \cup {Doc("none", NoneDb, NoneDb, o) :
                        o \in SeqsUpTo(SeqsUpTo(DoiPool, MaxRefs), MaxOrigins)}
    /\ doc_row = <<>> /\ doc_pc = "build"

DocIdle == doc = <<>> /\ doc_row = <<>> /\ doc_pc = "off"

\* the dict asked for under the legacy casing first
extract_dbids_legacy_first(d) ==
    IF d.database_Ids.kind = "dict" THEN d.database_Ids
    ELSE IF d.database_IDs.kind = "dict" THEN d.database_IDs
    ELSE EmptyDict

\* _extract_dbids
extract_dbids(d) ==
    IF d.database_IDs.kind = "dict" THEN d.database_IDs
    ELSE IF d.database_Ids.kind = "dict" THEN d.database_Ids
    ELSE EmptyDict

\* ";".join(items)
RECURSIVE join(_)
join(items) ==
    IF items = <<>> THEN <<>>
    ELSE IF Len(items) = 1 THEN <<Head(items)>>
    ELSE <<Head(items), ";">> \o join(Tail(items))

\* _extract_icsd_ids: `dbids.get("icsd") or []`, joined
extract_icsd_ids(d) ==
    LET dbids == extract_dbids(d)
        icsd  == IF "icsd" \in dbids.keys THEN dbids.icsd ELSE <<>>
    IN  join(icsd)

\* the lookup of fetch_from_provenance followed by extract_icsd_from_dbids
provenance_icsd(prov) ==
    LET first == prov.database_IDs
        dbids == IF first.kind # "dict" THEN prov.database_Ids ELSE first
    IN  IF dbids.kind = "dict"
        THEN (IF "icsd" \in dbids.keys THEN dbids.icsd ELSE <<>>)
        ELSE <<>>

\* doi.strip(), as one string
RECURSIVE doi_lstrip(_)
doi_lstrip(s) == IF s # <<>> /\ Head(s) = " " THEN doi_lstrip(Tail(s)) ELSE s
RECURSIVE text(_)
text(pieces) == IF pieces = <<>> THEN "" ELSE Head(pieces) \o text(Tail(pieces))
doi_strip(s) == text(Reverse(doi_lstrip(Reverse(doi_lstrip(s)))))

\* a test that lets every doi through
doi_counts_always(doi) == TRUE

\* `isinstance(doi, str) and doi.strip()`
doi_counts(doi) == doi_strip(doi) # ""

\* the set dois after the loops over origins and their references
dois_of(origins) ==
    UNION {{doi_strip(origins[i][j]) :
                j \in {k \in DOMAIN origins[i] : doi_counts(origins[i][k])}} :
           i \in DOMAIN origins}

\* _extract_dois_from_origins: ";".join(sorted(dois))
extract_dois_from_origins(d) ==
    LET dois == dois_of(d.origins)
    IN  join(Pick(DoiOrder, {k \in DOMAIN DoiOrder : DoiOrder[k] \in dois}, 1))

\* `doc.symmetry.symbol if doc.symmetry else ""`
row_spacegroup(d) == IF d.symbol = "none" THEN "" ELSE d.symbol

\* lines 190-215: the row of one document
BuildRow ==
    /\ script = "mp_row" /\ doc_pc = "build"
    /\ doc_row' = [spacegroup |-> row_spacegroup(doc),
                   dbids |-> extract_dbids(doc),
                   icsd_ids |-> extract_icsd_ids(doc),
                   prov_icsd |-> provenance_icsd(doc),
                   doi |-> extract_dois_from_origins(doc)]
    /\ doc_pc' = "done"
    /\ exit' = "done"
    /\ UNCHANGED <<doc, script, gapVars, argVars, raVars, cfVars, fileVars, chunkVars,
                   frameVars,
                   mpVars, nmVars, btVars, icVars, bdVars, codVars>>

-----------------------------------------------------------------------------
(* mp.py: query_and_save_metadata from the csv header on (lines 128-234).  The
   three searches of the batch have come back; what thermo and magnetism say of
   a material is kept with its summary document.  The material ids fill one
   batch of 500 at most.  main calls the function once; a program that imports
   mp.py may call it again, and all_rows lives as long as the process. *)

\* a summary document with what thermo_dict and magnetism_dict hold for its id;
\* formula_pretty "None": the field is None; ordering "none": no magnetism
\* document; formation_energy_per_atom "none": no
\* thermo document or no value
SummaryDoc(mid, formula, elements, ordering, energy, icsd) ==
    [material_id |-> mid, formula_pretty |-> formula, elements |-> elements,
     ordering |-> ordering, formation_energy_per_atom |-> energy,
     database_IDs |-> icsd, database_Ids |-> NoneDb]

\* the documents the provider holds, in the order it returns them
RowCatalog ==
    << SummaryDoc("mp-1", "Fe2O3", ListVal(<<"Fe", "O">>), "FM", "negative",
                  DictDb({"icsd"}, <<"101", "102">>)),
       SummaryDoc("mp-2", "MnO", NoneVal, "FM", "negative", NoneDb),
       SummaryDoc("mp-3", "FeNi", ListVal(<<"Fe", "Ni">>), "FM", "negative",
                  DictDb({"icsd"}, <<" ", "102">>)),
       SummaryDoc("mp-4", "None", ListVal(<<"Mn">>), "FM", "negative",
                  DictDb({"icsd"}, <<"103">>)),
       SummaryDoc("mp-5", "NiO", ListVal(<<"Ni", "O">>), "AFM", "negative",
                  DictDb({"icsd"}, <<"101">>)),
       SummaryDoc("mp-6", "CuFe", ListVal(<<"Cu", "Fe">>), "FM", "positive",
                  NoneDb) >>

\* bounds: the documents of one batch, the calls made in one process
MaxDocs == 2
MaxCalls == 2

\* what the summary search of a batch can come back with; <<>> also stands for
\* the None of a safe_api_call that gave up
BatchResults ==
    {Pick(RowCatalog, keep, 1) :
        keep \in {K \in SUBSET DOMAIN RowCatalog : Cardinality(K) <= MaxDocs}}

QsInit ==
    /\ all_rows = <<>> /\ csv_file = <<>> /\ excel_file = <<>>
    /\ ids_to_download = <<>> /\ basic_data = <<>>
    /\ qs_k = 1 /\ qs_pc = "idle" /\ qs_calls = 0 /\ qs_log = <<>>

QsIdle ==
    /\ all_rows = <<>> /\ csv_file = <<>> /\ excel_file = <<>>
    /\ ids_to_download = <<>> /\ basic_data = <<>>
    /\ qs_k = 1 /\ qs_pc = "off" /\ qs_calls = 0 /\ qs_log = <<>>

QsRest == <<script, gapVars, argVars, raVars, cfVars, docVars, gcVars, dlVars, chunkVars, frameVars,
            mpVars, nmVars, btVars, icVars, bdVars, codVars>>

\* lines 185-188: the client-side filters
passes_filters(d) ==
    /\ d.ordering = "FM"
    /\ d.formation_energy_per_atom = "negative"

\* lines 190-215: the columns ID, pretty_formula, species and icsd_ids of the row
row_of(d) ==
    [ID |-> d.material_id, pretty_formula |-> d.formula_pretty,
     species |-> join(d.elements.items), icsd_ids |-> extract_icsd_ids(d)]

\* s.split(sep), the parts as sequences of pieces
RECURSIVE split_by(_, _, _)
split_by(sep, s, part) ==
    IF s = <<>> THEN <<part>>
    ELSE IF Head(s) = sep THEN <<part>> \o split_by(sep, Tail(s), <<>>)
    ELSE split_by(sep, Tail(s), Append(part, Head(s)))

\* lines 227-231: the set behind icsd_flat
icsd_flat(rows) ==
    UNION {{doi_strip(p) : p \in {q \in SeqSet(split_by(";", rows[k].icsd_ids, <<>>)) :
                                        doi_strip(q) # ""}} :
           k \in {j \in DOMAIN rows : text(rows[j].icsd_ids) # ""}}

\* sorted(...) of a set of ICSD ids
sorted_ids(ids) == Pick(IcsdIdOrder, {k \in DOMAIN IcsdIdOrder : IcsdIdOrder[k] \in ids}, 1)

\* lines 136-177: the csv is opened anew with its header, the batch is searched
QueryAndSaveStart ==
    /\ script = "mp_rows" /\ qs_pc = "idle" /\ qs_calls < MaxCalls
    /\ csv_file' = <<>>
    /\ \E found \in BOOLEAN, data \in BatchResults :
          IF ~found                        \* material_ids is empty: no batch
          THEN basic_data' = <<>> /\ qs_log' = <<>>
          ELSE /\ basic_data' = data
               /\ qs_log' = IF data = <<>>
                            THEN <<"Processing batch", "Batch failed (no basic_data)">>
                            ELSE <<"Processing batch">>
    /\ qs_k' = 1 /\ qs_pc' = "rows"
    /\ UNCHANGED <<all_rows, excel_file, ids_to_download, qs_calls, exit, QsRest>>

\* one pass of `for doc in tqdm(basic_data, ...)`
RowNext ==
    /\ script = "mp_rows" /\ qs_pc = "rows" /\ qs_k <= Len(basic_data)
    /\ LET d == basic_data[qs_k]
       IN  IF ~passes_filters(d)
           THEN /\ qs_k' = qs_k + 1
                /\ UNCHANGED <<all_rows, csv_file, qs_pc, exit>>
           ELSE IF d.elements.kind = "None"      \* line 201 iterates over None
           THEN /\ qs_pc' = "crashed" /\ exit' = "TypeError"
                /\ UNCHANGED <<all_rows, csv_file, qs_k>>
           ELSE /\ all_rows' = Append(all_rows, row_of(d))
                /\ csv_file' = Append(csv_file, row_of(d))
                /\ qs_k' = qs_k + 1
                /\ UNCHANGED <<qs_pc, exit>>
    /\ UNCHANGED <<excel_file, ids_to_download, basic_data, qs_calls, qs_log, QsRest>>

\* lines 221-234: the Excel copy and the id file, both from all_rows
SaveOutputs ==
    /\ script = "mp_rows" /\ qs_pc = "rows" /\ qs_k > Len(basic_data)
    /\ excel_file' = all_rows
    /\ ids_to_download' = ids_text(sorted_ids(icsd_flat(all_rows)))
    /\ qs_log' = qs_log \o <<"Metadata saved", "Wrote ICSD IDs">>
    /\ qs_calls' = qs_calls + 1
    /\ qs_pc' = "idle"
    /\ UNCHANGED <<all_rows, csv_file, basic_data, qs_k, exit, QsRest>>

-----------------------------------------------------------------------------
(* ICSD_get_cifs_by_ids.py *)

\* id_file.readlines(): the lines of a text, each with its terminator
RECURSIVE readlines(_, _)
readlines(t, line) ==
    IF t = <<>> THEN (IF line = <<>> THEN <<>> ELSE <<line>>)
    ELSE IF Head(t) = NL THEN <<Append(line, NL)>> \o readlines(Tail(t), <<>>)
    ELSE readlines(Tail(t), Append(line, Head(t)))

\* line.strip('\n'), as one string
RECURSIVE lstrip_nl(_)
lstrip_nl(s) == IF s # <<>> /\ Head(s) = NL THEN lstrip_nl(Tail(s)) ELSE s
strip_nl(line) == text(Reverse(lstrip_nl(Reverse(lstrip_nl(line)))))

\* the id files the two writers can leave behind
IdFiles == {ids_text(Pick(IcsdIdOrder, keep, 1)) : keep \in SUBSET DOMAIN IcsdIdOrder}

GcInit ==
    /\ gc_py3 \in BOOLEAN
    /\ gc_file \in IdFiles
    /\ gc_lines = <<>> /\ gc_k = 1 /\ gc_done = <<>> /\ gc_pc = "read"

GcIdle ==
    /\ gc_py3 = FALSE /\ gc_file = <<>>
    /\ gc_lines = <<>> /\ gc_k = 1 /\ gc_done = <<>> /\ gc_pc = "off"

GcRest == <<script, gapVars, argVars, raVars, cfVars, docVars, qsVars, dlVars, chunkVars, frameVars,
            mpVars, nmVars, btVars, icVars, bdVars, codVars>>

\* what connect, execute and fetchall can come to for an id: a mysql Error, no
\* row, or rows; an id that is no number makes a statement the server rejects
QueryOutcomes(icsdid) ==
    IF looks_like_icsd(icsdid) THEN {"Error", "empty", "rows"} ELSE {"Error"}

\* lines 7-8
GetCifsRead ==
    /\ script = "get_cifs" /\ gc_pc = "read"
    /\ gc_lines' = readlines(gc_file, <<>>)
    /\ gc_pc' = "loop"
    /\ UNCHANGED <<gc_py3, gc_file, gc_k, gc_done, exit, GcRest>>

\* one pass of `for line in Lines`.  `except Error` catches the errors of the
\* connector only: records[0] of an empty result raises IndexError (line 97), and
\* under Python 3 bytes.strip('\n') raises TypeError (line 111) once the cif file
\* has been opened.
GetCifsLine ==
    /\ script = "get_cifs" /\ gc_pc = "loop" /\ gc_k <= Len(gc_lines)
    /\ LET icsdid == strip_nl(gc_lines[gc_k])
       IN  \E o \in QueryOutcomes(icsdid) :
              CASE o = "Error" ->
                     /\ gc_done' = Append(gc_done, [icsdid |-> icsdid, end |-> "printed"])
                     /\ gc_k' = gc_k + 1
                     /\ UNCHANGED <<gc_pc, exit>>
                [] o = "empty" ->
                     /\ gc_done' = Append(gc_done, [icsdid |-> icsdid, end |-> "IndexError"])
                     /\ gc_pc' = "crashed" /\ exit' = "IndexError"
                     /\ UNCHANGED gc_k
                [] o = "rows" /\ gc_py3 ->
                     /\ gc_done' = Append(gc_done, [icsdid |-> icsdid, end |-> "TypeError"])
                     /\ gc_pc' = "crashed" /\ exit' = "TypeError"
                     /\ UNCHANGED gc_k
                [] o = "rows" /\ ~gc_py3 ->
                     /\ gc_done' = Append(gc_done, [icsdid |-> icsdid, end |-> "cif"])
                     /\ gc_k' = gc_k + 1
                     /\ UNCHANGED <<gc_pc, exit>>
    /\ UNCHANGED <<gc_py3, gc_file, gc_lines, GcRest>>

\* the loop has run through Lines
GetCifsEnd ==
    /\ script = "get_cifs" /\ gc_pc = "loop" /\ gc_k > Len(gc_lines)
    /\ gc_pc' = "done" /\ exit' = "done"
    /\ UNCHANGED <<gc_py3, gc_file, gc_lines, gc_k, gc_done, GcRest>>

-----------------------------------------------------------------------------
(* Awflow_downloader.py: downloader *)

\* bounds: the entries of the search result, the parameter default_decounter
MaxN == 3
MaxDecounter == 3

DlInit ==
    /\ totalN \in 0..MaxN
    /\ counter \in 0..(MaxN + 1)
    /\ default_decounter \in 0..MaxDecounter
    /\ decounter = 0 /\ dl_pc = "call"
    /\ dl_accessed = <<>> /\ dl_batch = 0 /\ dl_pauses = <<>>

DlIdle ==
    /\ totalN = 0 /\ counter = 0 /\ default_decounter = 0
    /\ decounter = 0 /\ dl_pc = "off"
    /\ dl_accessed = <<>> /\ dl_batch = 0 /\ dl_pauses = <<>>

DlRest == <<script, gapVars, argVars, raVars, cfVars, docVars, qsVars, gcVars, chunkVars, frameVars,
            mpVars, nmVars, btVars, icVars, bdVars, codVars>>

\* lines 64-66: the csv header, decounter = default_decounter
DownloaderStart ==
    /\ script = "downloader" /\ dl_pc = "call"
    /\ decounter' = default_decounter
    /\ dl_pc' = "loop"
    /\ UNCHANGED <<totalN, counter, default_decounter, dl_accessed, dl_batch, dl_pauses,
                   exit, DlRest>>

\* one pass of `while counter <= totalN` (lines 68-80); result holds the entries
\* 0 .. totalN-1, and asking it for another index raises
DownloaderEntry ==
    /\ script = "downloader" /\ dl_pc = "loop" /\ counter <= totalN
    /\ dl_accessed' = Append(dl_accessed, counter)
    /\ IF counter >= totalN
       THEN /\ dl_pc' = "crashed" /\ exit' = "IndexError"
            /\ UNCHANGED <<counter, decounter, dl_batch, dl_pauses>>
       ELSE /\ IF decounter = 0
               THEN /\ dl_pauses' = Append(dl_pauses, dl_batch + 1)   \* time.sleep(300)
                    /\ dl_batch' = 0
                    /\ decounter' = default_decounter - 1
               ELSE /\ dl_batch' = dl_batch + 1
                    /\ decounter' = decounter - 1
                    /\ UNCHANGED dl_pauses
            /\ counter' = counter + 1
            /\ UNCHANGED <<dl_pc, exit>>
    /\ UNCHANGED <<totalN, default_decounter, DlRest>>

\* the loop condition fails
DownloaderReturn ==
    /\ script = "downloader" /\ dl_pc = "loop" /\ counter > totalN
    /\ dl_pc' = "done" /\ exit' = "done"
    /\ UNCHANGED <<totalN, counter, default_decounter, decounter, dl_accessed, dl_batch,
                   dl_pauses, DlRest>>

-----------------------------------------------------------------------------
(* The specifications: one script per behaviour *)

\* nemad.py, --retries: an int, 3 when not given (line 183)
NmArgsInit == nm_retries \in 1..MaxRetries
NmArgsIdle == nm_retries = 0

InitOf(s) ==
    /\ script = s
    /\ exit = "running"
    /\ FrameIdle
    /\ IF s = "chunk_list" THEN ChunkInit ELSE ChunkIdle
    /\ IF s = "mp" THEN MpInit ELSE MpIdle
    /\ IF s = "nemad" THEN NmInit ELSE NmIdle
    /\ IF s = "nemad" THEN NmArgsInit ELSE NmArgsIdle
    /\ IF s \in {"icsd", "band_dos"} THEN BtInit ELSE BtIdle
    /\ IF s = "icsd" THEN IcInit ELSE IcIdle
    /\ IF s = "band_dos" THEN BdInit ELSE BdIdle
    /\ IF s = "cod" THEN CodInit ELSE CodIdle
    /\ GapInit
    /\ IF s = "run_all" THEN RaInit ELSE RaIdle
    /\ IF s = "canonical_formula" THEN CfInit ELSE CfIdle
    /\ IF s = "mp_row" THEN DocInit ELSE DocIdle
    /\ IF s = "mp_rows" THEN QsInit ELSE QsIdle
    /\ IF s = "get_cifs" THEN GcInit ELSE GcIdle
    /\ IF s = "downloader" THEN DlInit ELSE DlIdle

NextChunk == ChunkListCall
NextMp == QueryStart \/ SearchCall \/ SafeApiCallAttempt \/ SafeApiCallExhausted
            \/ SearchHandle
NextNemad == NemadLoad \/ FetchByFormulaNext \/ FetchByElementsNext \/ RequestJsonAttempt
            \/ RequestJsonExhausted \/ FetchHandle \/ FetchRaise \/ FetchReturn
            \/ NemadWrite
NextIcsd == DetectDbidsField \/ SummaryNext \/ FetchFromSummaryAttempt
            \/ FetchFromSummaryExhausted \/ SummaryHandle \/ SummaryRaise
            \/ ProvenanceNext \/ FetchFromProvenanceAttempt
            \/ FetchFromProvenanceExhausted \/ ProvenanceHandle \/ IcsdWrite
NextBandDos == BandDosBatch
NextCod == FirstScanEntry \/ FirstScanEnd
NextRunAll == RaCheck \/ RaStepMp \/ RaStepIcsd \/ RaStepCifs \/ RaStepElastic
            \/ RaStepEs \/ RaStepNemad \/ RaStepPlot
NextFormula == CanonicalFormulaCall \/ CanonicalFormulaAgain \/ CanonicalFormulaOther
NextRow == BuildRow
NextRows == QueryAndSaveStart \/ RowNext \/ SaveOutputs
NextGetCifs == GetCifsRead \/ GetCifsLine \/ GetCifsEnd
NextDownloader == DownloaderStart \/ DownloaderEntry \/ DownloaderReturn

SpecChunk == InitOf("chunk_list") /\ [][NextChunk]_vars
SpecMp == InitOf("mp") /\ [][NextMp]_vars
SpecNemad == InitOf("nemad") /\ [][NextNemad]_vars
SpecIcsd == InitOf("icsd") /\ [][NextIcsd]_vars
SpecBandDos == InitOf("band_dos") /\ [][NextBandDos]_vars
SpecCod == InitOf("cod") /\ [][NextCod]_vars
SpecRunAll == InitOf("run_all") /\ [][NextRunAll]_vars
SpecFormula == InitOf("canonical_formula") /\ [][NextFormula]_vars
SpecRow == InitOf("mp_row") /\ [][NextRow]_vars
SpecRows == InitOf("mp_rows") /\ [][NextRows]_vars
SpecGetCifs == InitOf("get_cifs") /\ [][NextGetCifs]_vars
SpecDownloader == InitOf("downloader") /\ [][NextDownloader]_vars

\* the scripts that call a remote service through a retry wrapper
InitRetry == InitOf("mp") \/ InitOf("nemad") \/ InitOf("icsd")
NextRetry == NextMp \/ NextNemad \/ NextIcsd
SpecRetry == InitRetry /\ [][NextRetry]_vars

\* the code that cuts a list into batches
InitBatch == InitOf("chunk_list") \/ InitOf("icsd") \/ InitOf("band_dos")
NextBatch == NextChunk \/ NextIcsd \/ NextBandDos
SpecBatch == InitBatch /\ [][NextBatch]_vars

Init ==
    \E s \in {"chunk_list", "mp", "nemad", "icsd", "band_dos", "cod", "run_all",
              "canonical_formula", "mp_row", "mp_rows", "get_cifs", "downloader"} :
        InitOf(s)
Next == NextChunk \/ NextMp \/ NextNemad \/ NextIcsd \/ NextBandDos \/ NextCod
            \/ NextRunAll \/ NextFormula \/ NextRow \/ NextRows \/ NextGetCifs
            \/ NextDownloader
Spec == Init /\ [][Next]_vars

-----------------------------------------------------------------------------
(* Properties of the retry wrappers *)

\* the wrapper has handed a value or an exception to its caller
Finished == w_state \in {"returned", "raised"}
\* every request this invocation made has failed
AllAttemptsFailed == w_calls >= 1 /\ Len(w_fails) = w_calls

\* the base delay of each wrapper
BaseDelay ==
    CASE w_name = "safe_api_call" -> SafeApiDelay
      [] w_name = "request_json" -> RequestJsonBackoff
      [] w_name \in {"fetch_from_summary", "fetch_from_provenance"} -> SummaryBackoff
      [] OTHER -> 0

\* C1: when the remote call fails on every attempt and max_attempts >= 1, a retry
\* wrapper (safe_api_call, request_json, the loops of fetch_from_summary and
\* fetch_from_provenance) has issued exactly max_attempts requests when it stops.
C1_ExactlyMaxAttempts ==
    (Finished /\ w_retries >= 1 /\ AllAttemptsFailed) => w_calls = w_retries

\* C2: when all max_attempts attempts have failed, safe_api_call, request_json and
\* the retry loop of fetch_from_summary raise the last error to the caller; they do
\* not return a value in its place.
C2_ReraisesLastError ==
    (/\ w_name \in {"safe_api_call", "request_json", "fetch_from_summary"}
     /\ Finished /\ w_retries >= 1 /\ AllAttemptsFailed /\ w_calls = w_retries)
    => (w_state = "raised" /\ w_err = w_fails[Len(w_fails)])

\* C8: the wait after the n-th failed attempt, n < max_attempts, is base_delay * n,
\* and no wait follows the max_attempts-th failed attempt: the waits of an
\* invocation whose requests have all failed so far are base * 1, ..., base * k
\* with k = min(failures, max_attempts - 1).
C8_LinearBackoff ==
    (w_state # "idle" /\ w_retries >= 1 /\ Len(w_fails) = w_calls)
    => w_sleeps = [n \in 1..Min(Len(w_fails), w_retries - 1) |-> BaseDelay * n]

\* C9: an error of the NEMAD request (timeout, connection error, 5xx, rate limit)
\* ends the script, i.e. reaches the caller of fetch_by_formula / fetch_by_elements,
\* only after max_attempts requests have been made.
C9_TransientErrorRetried ==
    (script = "nemad" /\ exit \notin {"running", "done"}) => w_calls = w_retries

\* C10: what query_and_save_metadata and fetch_by_formula / fetch_by_elements make
\* of a call whose attempts all failed differs from what they make of a call that
\* succeeded with an empty result list.
C10_FailureDistinguishable ==
    /\ (script = "mp" /\ w_state = "returned" /\ AllAttemptsFailed)
       => search_extend(all_results, w_val) # search_extend(all_results, ListVal(<<>>))
    /\ (script = "nemad" /\ w_state = "returned" /\ AllAttemptsFailed)
       => fetch_append(nm_out, w_val, nm_formulas[nm_fi])
            # fetch_append(nm_out, DictVal(<<>>), nm_formulas[nm_fi])

-----------------------------------------------------------------------------
(* Properties of the element filters *)

BannedSet == SeqSet(banned_elements)
ElementsOf(mid) ==
    LET k == CHOOSE j \in DOMAIN MpCatalog : MpCatalog[j].material_id = mid
    IN  MpCatalog[k].elements

\* C3: after the element search of query_and_save_metadata no material of
\* material_ids contains a banned element.
C3_NoBannedElement ==
    (script = "mp" /\ mp_pc = "searched")
    => \A mid \in material_ids : ElementsOf(mid) \cap BannedSet = {}

HasAllowed(els) == \E i \in DOMAIN necessary : necessary[i] \in SeqSet(els)
HasBanned(els) == \E i \in DOMAIN banlist : banlist[i] \in SeqSet(els)
RowsOf(k) == {j \in DOMAIN cod_rows : cod_rows[j].path = k}

\* C4: first_scan writes a row for a CIF if and only if its element list holds an
\* allow-list element and no ban-list element (one row, carrying that list).
C4_RowIffAllowedAndNotBanned ==
    \A k \in 1..cod_k :
        LET els == elemets(cod_paths[k])
        IN  /\ (RowsOf(k) # {}) <=> (HasAllowed(els) /\ ~HasBanned(els))
            /\ Cardinality(RowsOf(k)) <= 1
            /\ \A j \in RowsOf(k) : cod_rows[j].species = els

\* a scan that met an entry with an allowed and a banned element (no row) and an
\* entry with an allowed element only (a row)
C4_Witness ==
    /\ cod_pc = "done"
    /\ \E k \in 1..cod_k :
          LET els == elemets(cod_paths[k])
          IN  HasAllowed(els) /\ HasBanned(els) /\ RowsOf(k) = {}
    /\ \E k \in 1..cod_k :
          LET els == elemets(cod_paths[k])
          IN  HasAllowed(els) /\ ~HasBanned(els) /\ RowsOf(k) # {}

-----------------------------------------------------------------------------
(* Properties of the batching *)

RECURSIVE SumLen(_)
SumLen(chunk) == IF chunk = <<>> THEN 0 ELSE Len(Head(chunk)) + SumLen(Tail(chunk))
\* the length of a chunk joined with one separator between consecutive items
SerializedLen(chunk) == SumLen(chunk) + (IF chunk = <<>> THEN 0 ELSE Len(chunk) - 1)

\* C5: every batch chunk_list returns has a serialized length of at most max_chars,
\* and every slice cut by fetch_from_summary and fetch_band_dos.main holds at most
\* the batch size of items.
C5_BatchWithinCapacity ==
    /\ ch_pc = "done"
       => \A k \in DOMAIN ch_out : SerializedLen(ch_out[k]) <= ch_max
    /\ script \in {"icsd", "band_dos"}
       => \A k \in DOMAIN bt_batches : Len(bt_batches[k]) <= bt_batch

\* fetch_from_summary has returned / the loop of fetch_band_dos.main has ended
SlicingDone ==
    \/ script = "icsd" /\ ic_pc \in {"provenance", "write", "done"}
    \/ script = "band_dos" /\ bd_pc = "done"

\* C6: the batches, concatenated in the order produced, are the input sequence:
\* for chunk_list, and for the slices of fetch_from_summary and fetch_band_dos.main
\* with any integer batch size the command line accepts.
C6_BatchesPartitionInput ==
    /\ ch_pc = "done" => Concat(ch_out) = ch_lst
    /\ SlicingDone => Concat(bt_batches) = bt_ids

-----------------------------------------------------------------------------
(* Properties of the merge *)

(* The canonical space-group symbol of the symbols the model uses: dash glyphs to
   "-", blanks and dots removed, a trailing "(number)" removed, hyphens collapsed,
   upper case. *)
CanonSG(symbol) ==
    CASE symbol \in {"R-3c", "r - 3 c"} -> "R-3C"
      [] symbol \in {"Fm-3m", "FM-3M (225)"} -> "FM-3M"
      [] symbol = "P1" -> "P1"
      [] OTHER -> symbol

\* the canonical space groups the MP rows have for a canonical formula
AllowedKeySet(formula) ==
    {CanonSG(nm_mp[k].spacegroup) :
        k \in {j \in DOMAIN nm_mp : canonical_formula(nm_mp[j].formula, nm_comp) = formula}}

\* the scenario: one MP row Fe2O3 / R-3c, the NEMAD candidates 'r - 3 c' and 'Fm-3m'
Fe2O3Scenario ==
    /\ Len(nm_mp) = 1 /\ nm_mp[1].ID = "mp-1"
    /\ {nm_out[k].rid : k \in DOMAIN nm_out} = {"n1", "n2"}
    /\ Len(nm_out) = 2

\* C7: a NEMAD record is joined to an MP row only if its canonical formula is the
\* row's and its canonical space group is one the MP rows have for that formula;
\* in the Fe2O3 scenario the merged output has exactly one row.
C7_MergeChecksSpaceGroup ==
    (script = "nemad" /\ nm_pc = "done")
    => /\ \A k \in DOMAIN nm_merged :
            nm_merged[k].rid # NoRecord.rid
            => CanonSG(nm_merged[k].Crystal_Structure) \in AllowedKeySet(nm_merged[k].formula)
       /\ (Fe2O3Scenario /\ nm_merge_out) => Len(nm_merged) = 1

-----------------------------------------------------------------------------
(* Properties of run_all.py *)

HarvestSteps ==
    {"mp.py", "icsd_from_mpids.py", "ICSD_get_cifs_by_ids.py", "fetch_elasticity.py",
     "fetch_band_dos.py", "nemad_fetch.py"}

\* C11: when a harvesting step launched by run_all.main has exited with a failure,
\* run_all has reported it with warn() and goes on: it is never ended by the failure.
C11_HarvestFailureNonFatal ==
    \A cmd \in ra_failed \cap HarvestSteps :
        ra_pc # "aborted" /\ cmd \in ra_warned

-----------------------------------------------------------------------------
(* Properties of the pause between remote calls *)

\* C12: when a wrapped remote call of query_and_save_metadata or of fetch_by_formula /
\* fetch_by_elements has succeeded, the caller sleeps the inter-call delay before it
\* issues the next call, whether or not an attempt of that call had failed.
C12_DelayAfterSuccess ==
    (script \in {"mp", "nemad"} /\ last_call = "ok") => pause # <<>>

-----------------------------------------------------------------------------
(* Properties of canonical_formula *)

\* C13: canonical_formula(canonical_formula(s)) = canonical_formula(s) for every
\* string s, with the formula parser and in the fallback branch.
C13_CanonicalFormulaIdempotent ==
    (script = "canonical_formula" /\ Len(cf_out) >= 2) => cf_out[2] = cf_out[1]

\* a string that canonical_formula has changed (reduced, or stripped) and then kept
C13_Witness ==
    /\ script = "canonical_formula" /\ Len(cf_out) >= 2
    /\ cf_out[1] # cf_s /\ cf_out[1] # <<>>
    /\ cf_out[2] = cf_out[1]

\* C14: two formula strings with the same element tokens in different order have the
\* same canonical formula.
C14_OrderInvariant ==
    (script = "canonical_formula" /\ cf_pc = "done" /\ Parseable(cf_s) /\ ~IsBlank(cf_s))
    => cf_out[3] = cf_out[1]

\* the original string with every run of blanks made one blank and none at its ends
RECURSIVE Squeeze(_)
Squeeze(s) ==
    IF s = <<>> THEN <<>>
    ELSE IF Head(s) = SP /\ (Tail(s) = <<>> \/ Head(Tail(s)) = SP) THEN Squeeze(Tail(s))
    ELSE <<Head(s)>> \o Squeeze(Tail(s))
Collapsed(s) == Squeeze(lstrip(s))

\* C15: for a string the formula parser rejects, canonical_formula returns the
\* original string with its whitespace collapsed (and does not raise).
C15_FallbackCollapsesWhitespace ==
    (/\ script = "canonical_formula" /\ Len(cf_out) >= 1
     /\ cf_comp /\ ~Parseable(cf_s) /\ ~IsBlank(cf_s))
    => cf_out[1] = Collapsed(cf_s)

-----------------------------------------------------------------------------
(* Properties of the row of a summary document *)

\* C16: the spacegroup column of an emitted row does not depend on the spelling of
\* the raw symbol: a document whose raw symbol has the same canonical form (blanks,
\* dash glyph, letter case, trailing index, repeated hyphens aside) gets the same
\* column.
C16_EmittedSymbolCanonical ==
    (script = "mp_row" /\ doc_pc = "done" /\ doc.symbol # "none")
    => \A other \in SymbolPool \ {"none"} :
           CanonSG(other) = CanonSG(doc.symbol)
           => row_spacegroup(Doc(other, NoneDb, NoneDb, <<>>)) = doc_row.spacegroup

\* the first of database_IDs, database_Ids that the document has, else the empty dict
FirstPresent(d) ==
    LET present == {k \in 1..2 : <<d.database_IDs, d.database_Ids>>[k] # NoneDb}
    IN  IF present = {} THEN EmptyDict
        ELSE <<d.database_IDs, d.database_Ids>>[CHOOSE k \in present : \A j \in present : k <= j]

\* C18: _extract_dbids and the lookup of fetch_from_provenance give the value of the
\* first of the variants database_IDs, database_Ids that is present on the record,
\* and the empty dict / the empty id list when none is.
C18_FirstPresentVariant ==
    (script = "mp_row" /\ doc_pc = "done")
    => /\ doc_row.dbids = FirstPresent(doc)
       /\ doc_row.prov_icsd = (IF "icsd" \in FirstPresent(doc).keys
                               THEN FirstPresent(doc).icsd ELSE <<>>)

\* a document with both variants, holding different dicts, and one with none
C18_Witness ==
    /\ script = "mp_row" /\ doc_pc = "done"
    /\ doc.database_IDs # NoneDb /\ doc.database_Ids # NoneDb
    /\ doc.database_IDs # doc.database_Ids
    /\ doc_row.dbids = doc.database_IDs

\* the stripped, non-blank dois of all references of all origins
FoundDois(d) ==
    {doi_strip(ref) : ref \in UNION {SeqSet(d.origins[i]) : i \in DOMAIN d.origins}} \ {""}

\* C20: _extract_dois_from_origins gives the stripped non-blank dois of the
\* references of the origins, each once, in sorted order, joined with ";"; a blank
\* doi is never among them.
C20_DoisSortedDistinct ==
    (script = "mp_row" /\ doc_pc = "done")
    => LET listed == SelectSeq(doc_row.doi, LAMBDA p : p # ";")
       IN  /\ SeqSet(listed) = FoundDois(doc)
           /\ \A i, j \in DOMAIN listed :
                  i < j => \E a, b \in DOMAIN DoiOrder :
                               a < b /\ DoiOrder[a] = listed[i] /\ DoiOrder[b] = listed[j]
           /\ "" \notin SeqSet(listed)
           /\ doc_row.doi = join(listed)

\* two origins that name the same doi, one of them with blanks around it, besides a
\* blank doi
C20_Witness ==
    /\ script = "mp_row" /\ doc_pc = "done"
    /\ Len(doc.origins) = 2
    /\ doc.origins[1] = << <<" ", "10.1/a", " ">> >>
    /\ doc.origins[2] = << <<"10.1/a">> >>
    /\ doc_row.doi = <<"10.1/a">>

-----------------------------------------------------------------------------
(* Properties of the NEMAD result set and of the field probe *)

\* the canonical key of a fetched NEMAD record, as the merge would compute it
RecordKey(rec) ==
    <<canonical_formula(nemad_formula_col(rec), nm_comp), CanonSG(rec.Crystal_Structure)>>

\* C17: in the NEMAD records that main writes and merges no two records have the
\* same canonical key and the same external identifier.
C17_NoDuplicateRecord ==
    (script = "nemad" /\ nm_pc \in {"fetched", "done"})
    => \A i, j \in DOMAIN nm_out :
           (i < j /\ nm_out[i].rid = nm_out[j].rid)
           => RecordKey(nm_out[i]) # RecordKey(nm_out[j])

\* C19: in a run of icsd_from_mpids.main detect_dbids_field is called once, before
\* the first batch request, and every request of fetch_from_summary names the field
\* that call returned.
C19_ProbedOnce ==
    script = "icsd"
    => /\ ic_probes <= 1
       /\ (w_name \in {"fetch_from_summary", "fetch_from_provenance"} \/ bt_batches # <<>>)
          => ic_probes = 1
       /\ (w_name = "fetch_from_summary" /\ w_state # "idle")
          => (w_args.field = ic_field /\ ic_field = ic_schema)

\* the second batch request of a run, made with the field the probe found
C19_Witness ==
    /\ script = "icsd" /\ ic_probes = 1
    /\ w_name = "fetch_from_summary" /\ w_state = "running"
    /\ Len(bt_batches) = 2
    /\ w_args.field = "database_Ids"

-----------------------------------------------------------------------------
(* Properties of incomplete records *)

\* mp.py and ICSD_get_cifs_by_ids.py, each working through its records
InitRecords == InitOf("mp_rows") \/ InitOf("get_cifs")
NextRecords == NextRows \/ NextGetCifs
SpecRecords == InitRecords /\ [][NextRecords]_vars

\* a summary document without its formula or its element list
Incomplete(d) == d.formula_pretty = "None" \/ d.elements.kind = "None"

RowIds(rows) == {rows[k].ID : k \in DOMAIN rows}

\* C21: a record that lacks a required field is skipped and the records after and
\* before it are still processed: once query_and_save_metadata has left its loop, no
\* row of datalist.csv belongs to a document without formula or element list, and
\* every complete document that passes the filters has its row; a line of
\* ids_to_download.txt whose query returns no row does not end the run of
\* ICSD_get_cifs_by_ids.
C21_IncompleteRecordSkipped ==
    /\ (script = "mp_rows" /\ (qs_pc = "crashed" \/ (qs_pc = "idle" /\ qs_calls > 0))) =>
          \A k \in DOMAIN basic_data :
              LET d == basic_data[k]
              IN  /\ Incomplete(d) => d.material_id \notin RowIds(csv_file)
                  /\ (~Incomplete(d) /\ passes_filters(d)) =>
                          d.material_id \in RowIds(csv_file)
    /\ (script = "get_cifs" /\ gc_pc = "crashed") =>
          gc_done[Len(gc_done)].end # "IndexError"

-----------------------------------------------------------------------------
(* Properties of the identifier file *)

\* the two writers of ids_to_download.txt and its reader
InitIds == InitOf("mp_rows") \/ InitOf("icsd") \/ InitOf("get_cifs")
NextIds == NextRows \/ NextIcsd \/ NextGetCifs
SpecIds == InitIds /\ [][NextIds]_vars

\* the identifiers a reader gets from a text, read as ICSD_get_cifs_by_ids reads it
ReadBack(t) ==
    LET Ls == readlines(t, <<>>)
    IN  {strip_nl(Ls[k]) : k \in DOMAIN Ls}

\* the text holds each identifier of ids once, one per line, every line ended by the
\* terminator, and nothing else
HoldsExactly(t, ids) ==
    LET Ls == readlines(t, <<>>)
    IN  /\ Len(Ls) = Cardinality(ids)
        /\ \A k \in DOMAIN Ls : Len(Ls[k]) = 2 /\ Ls[k][1] \in ids /\ Ls[k][2] = NL
        /\ {Ls[k][1] : k \in DOMAIN Ls} = ids
        /\ ids = {} => t = <<>>
        /\ ReadBack(t) = ids

\* the non-blank identifiers named in the icsd_ids column of some row
RowIcsdIds(rows) ==
    UNION {SeqSet(rows[k].icsd_ids) \ {";", " "} : k \in DOMAIN rows}

\* what the reader has in Lines is what the writer wrote
ReaderSeesWritten ==
    (script = "get_cifs" /\ gc_pc # "read") =>
        \E ids \in SUBSET SeqSet(IcsdIdOrder) :
            /\ gc_file = ids_text(sorted_ids(ids))
            /\ HoldsExactly(gc_file, ids)
            /\ {strip_nl(gc_lines[k]) : k \in DOMAIN gc_lines} = ids

\* C22 as stated: ids_to_download.txt as mp.py and icsd_from_mpids.py write it holds
\* every distinct non-empty identifier of the result set (the rows of mp.py, the set
\* icsd of icsd_from_mpids.py) once, one per line, each line terminated, and is empty
\* for an empty set; read back line by line it gives that set.
C22_FileHoldsResultSet ==
    /\ (script = "mp_rows" /\ qs_pc = "idle" /\ qs_calls > 0) =>
          HoldsExactly(ids_to_download, RowIcsdIds(all_rows))
    /\ (script = "icsd" /\ ic_pc = "done") => HoldsExactly(ic_file, ic_icsd)
    /\ ReaderSeesWritten

\* C22, amended: the same, the result set of icsd_from_mpids.py being the
\* identifiers of icsd that look like a number (looks_like_icsd).
C22_FileHoldsKeptIds ==
    /\ (script = "mp_rows" /\ qs_pc = "idle" /\ qs_calls > 0) =>
          HoldsExactly(ids_to_download, RowIcsdIds(all_rows))
    /\ (script = "icsd" /\ ic_pc = "done") =>
          HoldsExactly(ic_file, {x \in ic_icsd : looks_like_icsd(x)})
    /\ ReaderSeesWritten

\* mp.py has written a file of two lines or more from rows that name a blank id
C22_Witness ==
    /\ script = "mp_rows" /\ qs_pc = "idle" /\ qs_calls > 0
    /\ Len(ids_to_download) >= 4
    /\ \E k \in DOMAIN all_rows : " " \in SeqSet(all_rows[k].icsd_ids)

-----------------------------------------------------------------------------
(* Properties of the accumulation of fetch_from_summary *)

\* fetch_from_summary has returned and nothing has been added to its set yet
SummaryReturned ==
    /\ script = "icsd"
    /\ ic_pc = "provenance" \/ (ic_pc \in {"write", "done"} /\ ~ic_use_prov)

-----------------------------------------------------------------------------
(* Properties of the batches of chunk_list *)

\* the ways to cut a list into contiguous non-empty batches, order kept
RECURSIVE Partitions(_)
Partitions(lst) ==
    IF lst = <<>> THEN {<<>>}
    ELSE UNION {{<<SubSeq(lst, 1, k)>> \o p : p \in Partitions(SubSeq(lst, k + 1, Len(lst)))} :
                k \in 1..Len(lst)}

\* those whose batches all respect max_chars
ValidPartitions(lst, max_chars) ==
    {p \in Partitions(lst) : \A k \in DOMAIN p : SerializedLen(p[k]) <= max_chars}

\* C24: no partition of the input into contiguous batches that each respect
\* max_chars has fewer batches than the result of chunk_list.
C24_FewestBatches ==
    ch_pc = "done" =>
        \A p \in ValidPartitions(ch_lst, ch_max) : Len(p) >= Len(ch_out)

\* chunk_list has returned two batches or more where a partition with more batches
\* respects max_chars too
C24_Witness ==
    /\ ch_pc = "done" /\ Len(ch_out) >= 2
    /\ \E p \in ValidPartitions(ch_lst, ch_max) : Len(p) > Len(ch_out)

\* C28: every batch in the result of chunk_list holds at least one item.
C28_NoEmptyBatch ==
    ch_pc = "done" => \A k \in DOMAIN ch_out : ch_out[k] # <<>>

-----------------------------------------------------------------------------
(* Properties of the command line of nemad.py *)

\* C25: when a NEMAD query has failed on every attempt (here: was answered with an
\* error status each time), the requests request_json has issued for
\* fetch_by_formula / fetch_by_elements are as many as the value given with
\* --retries.
C25_RetriesHonoured ==
    (/\ script = "nemad" /\ w_name = "request_json" /\ Finished /\ AllAttemptsFailed
     /\ SeqSet(w_fails) \subseteq HttpErrors) =>
        w_calls = nm_retries

-----------------------------------------------------------------------------
(* Properties of the steps of run_all.py *)

\* the helper scripts of the steps, and the flag that disables each
Tools == SeqSet(RequiredScripts) \cup {CifScript}
SkipFlag(tool) ==
    CASE tool = "mp.py" -> "skip_mp"
      [] tool = "icsd_from_mpids.py" -> "none"
      [] tool = CifScript -> "skip_icsd"
      [] tool = "fetch_elasticity.py" -> "skip_elastic"
      [] tool = "fetch_band_dos.py" -> "skip_es"
      [] tool = "nemad_fetch.py" -> "skip_nemad"

\* the step has its script and is not disabled (the CIF download also needs the
\* id file)
StepEnabled(tool) ==
    /\ tool \in ra_files
    /\ SkipFlag(tool) \notin ra_args
    /\ tool = CifScript => "ids_to_download.txt" \in ra_files

\* C26: a step whose helper script is missing or that is disabled by its --skip
\* flag is skipped and the other enabled steps still run: with a helper script
\* missing (and datalist.csv there when --skip-mp is given) main is not given up
\* before any step has run, and when main comes to its end the steps that have run
\* are the enabled ones.
C26_UnavailableStepSkipped ==
    script = "run_all" =>
        /\ (Tools \ ra_files # {} /\ ("skip_mp" \in ra_args => "datalist.csv" \in ra_files))
              => ~(ra_pc = "aborted" /\ ra_ran = <<>>)
        /\ ra_pc = "done" =>
              \A tool \in Tools : tool \in SeqSet(ra_ran) <=> StepEnabled(tool)

-----------------------------------------------------------------------------
(* Properties of downloader *)

\* C27: between the start and the first pause, and between two consecutive pauses,
\* downloader downloads exactly default_decounter entries (default_decounter >= 1).
C27_BatchOfDefaultDecounter ==
    (script = "downloader" /\ default_decounter >= 1) =>
        \A k \in DOMAIN dl_pauses : dl_pauses[k] = default_decounter

\* C29: downloader asks the search result only for indices in 0 .. totalN-1, each
\* once and in increasing order from counter on, and ends without an index past the
\* end of the result.
C29_IndicesWithinResult ==
    script = "downloader" =>
        /\ \A k \in DOMAIN dl_accessed : dl_accessed[k] \in 0..(totalN - 1)
        /\ \A k \in DOMAIN dl_accessed : k > 1 => dl_accessed[k] = dl_accessed[k - 1] + 1
        /\ dl_pc # "crashed"

-----------------------------------------------------------------------------
(* Properties of the outputs of query_and_save_metadata *)

\* C30: after any number of calls of query_and_save_metadata in one process the
\* rows of datalist.xlsx are the rows the latest call wrote to datalist.csv, and
\* ids_to_download.txt holds the ICSD ids of those rows.
C30_OutputsOfLatestCall ==
    (script = "mp_rows" /\ qs_pc = "idle" /\ qs_calls > 0) =>
        /\ excel_file = csv_file
        /\ ReadBack(ids_to_download) = RowIcsdIds(csv_file)

====
